---------------------------- MODULE Spec2Model ----------------------------
(***************************************************************************)
(* A model of the Mython interpreter core: the indentation-aware lexer     *)
(* (lexer.cpp / lexer.h), the object model (runtime.cpp / runtime.h) and   *)
(* the AST evaluator (statement.cpp / statement.h).                        *)
(***************************************************************************)
EXTENDS Integers, Sequences, FiniteSets, TLC

VARIABLES
    token_creator,  \* SplitIntoTokens: the LexerTokenCreator and the stream it reads
    tokens,         \* SplitIntoTokens: the deque of tokens
    split_pc,       \* SplitIntoTokens: "loop", "returned", or the exception thrown
    current_index_, \* Lexer: the cursor into tokens_ (tokens, once returned)
    classes,        \* runtime::Class objects by name: [name, methods, parent]
    heap,           \* runtime::ClassInstance objects by identity: [cls, fields]
    closure,        \* the root symbol table (runtime::Closure)
    output,         \* the bytes written to Context::GetOutputStream()
    call,           \* the operation being applied and its operands
    ret,            \* what the operation returned or threw
    exec_log        \* the Execute calls, throws and catches of the last operation

lexer_vars == <<token_creator, tokens, split_pc, current_index_>>

runtime_vars == <<classes, heap, closure, output, call, ret, exec_log>>

vars == <<token_creator, tokens, split_pc, current_index_, classes, heap, closure, output, call, ret, exec_log>>

(***************************************************************************)
(* ------------------------------ LEXER ---------------------------------- *)
(***************************************************************************)

\* The lexer is run on every input of at most MaxLen bytes, and on every
\* two-line input whose lines are indented by at most MaxIndent spaces.
MaxLen == 4
MaxIndent == 4
\* How many tokens beyond the input's length the tokenizing loop may push before the
\* model stops following it (the loop of SplitIntoTokens has no cap of its
\* own; a run that returns never holds more tokens than the input has bytes
\* at the start of a pass).
MaxSpin == 2

\* lexer_consts::INDENT_STEP
INDENT_STEP == 2

\* The value of static_cast<char>(input.get()) when the read fails:
\* traits::eof() narrowed to char.
EOFCH == "EOF"

NL == "\n"

\* lexer_consts::SPECIAL_SIGNS (the model's input alphabet holds "=" and "!")
SPECIAL_SIGNS == {":", "(", ")", ",", ".", "+", "-", "*", "/", "!", ">", "<", "="}

\* lexer_consts::OPERATION_SIGNS
OPERATION_SIGNS ==
    [p \in {<<"=", "=">>, <<"!", "=">>, <<"<", "=">>, <<">", "=">>} |->
        CASE p[1] = "=" -> "Eq"
          [] p[1] = "!" -> "NotEq"
          [] p[1] = "<" -> "LessOrEq"
          [] p[1] = ">" -> "GreaterOrEq"]

\* lexer_consts::SPECIAL_WORDS, restricted to the words the input alphabet
\* can spell (a word is a sequence of characters).
SPECIAL_WORDS ==
    [w \in {<<"o", "r">>} |-> "Or"]

Digits == {"0", "1"}
Alphas == {"a", "o", "r", "_"}

\* The bytes inputs are made of.
Alphabet == {" ", NL, "#", "'", "a", "1", "=", "@"}

\* Every value a char variable of the lexer can hold.
AllChars == Alphabet \cup Digits \cup Alphas \cup SPECIAL_SIGNS \cup {"\"", EOFCH}

IsAlpha(c) == c \in Alphas
IsDigit(c) == c \in Digits
IsEndOfLine(c) == c = NL
IsNotEndOfLine(c) == c # NL
IsJail(c) == c = "#"
IsSpecialSign(c) == c \in SPECIAL_SIGNS
IsQuote(c) == c = "'" \/ c = "\""
IsSpace(c) == c = " "

(***************************************************************************)
(* std::istream over a string.  A stream is a record                       *)
(*   in   : the bytes, pos : how many have been consumed,                  *)
(*   eof  : eofbit,   fail : failbit or badbit (operator bool is ~fail).   *)
(***************************************************************************)
StreamOf(in) == [in |-> in, pos |-> 0, eof |-> FALSE, fail |-> FALSE]

StreamGood(s) == ~s.eof /\ ~s.fail
StreamOk(s) == ~s.fail

\* GetChar: input.get() narrowed to char.
GetChar(s) ==
    IF ~StreamGood(s) THEN [s |-> [s EXCEPT !.fail = TRUE], c |-> EOFCH]
    ELSE IF s.pos < Len(s.in)
         THEN [s |-> [s EXCEPT !.pos = s.pos + 1], c |-> s.in[s.pos + 1]]
         ELSE [s |-> [s EXCEPT !.eof = TRUE, !.fail = TRUE], c |-> EOFCH]

\* PeekChar: input.peek() narrowed to char.
PeekChar(s) ==
    IF ~StreamGood(s) THEN [s |-> [s EXCEPT !.fail = TRUE], c |-> EOFCH]
    ELSE IF s.pos < Len(s.in)
         THEN [s |-> s, c |-> s.in[s.pos + 1]]
         ELSE [s |-> [s EXCEPT !.eof = TRUE], c |-> EOFCH]

\* input.putback(c): clears eofbit, then needs a good stream and the byte
\* before the read position to be c.
Putback(s, c) ==
    LET t == [s EXCEPT !.eof = FALSE] IN
    IF t.fail THEN t
    ELSE IF t.pos > 0 /\ t.in[t.pos] = c THEN [t EXCEPT !.pos = t.pos - 1]
         ELSE [t EXCEPT !.fail = TRUE]

IsNextEndOfLine(s) ==
    IF ~StreamOk(s) THEN [s |-> s, b |-> TRUE]
    ELSE LET p == PeekChar(s) IN [s |-> p.s, b |-> IsEndOfLine(p.c)]

IsEof(s) ==
    IF ~StreamOk(s) THEN [s |-> s, b |-> TRUE]
    ELSE LET g == GetChar(s) IN
         IF ~StreamOk(g.s) THEN [s |-> g.s, b |-> TRUE]
         ELSE [s |-> Putback(g.s, g.c), b |-> FALSE]

\* SkipWordIf(input, cmp): cmp is given as the set of chars it accepts.
RECURSIVE SkipWordIf(_, _)
SkipWordIf(s, accept) ==
    IF ~StreamOk(s) THEN s
    ELSE LET g == GetChar(s) IN
         IF g.c \notin accept
         THEN IF StreamOk(g.s) THEN Putback(g.s, g.c) ELSE g.s
         ELSE SkipWordIf(g.s, accept)

SkipSpaces(s) == SkipWordIf(s, {c \in AllChars : IsSpace(c)})

SkipTillTheEndOfLine(s) == SkipWordIf(s, {c \in AllChars : IsNotEndOfLine(c)})

\* ReadWordIf(input, cmp): cmp is given as the set of chars it accepts; out
\* is the word read so far.
RECURSIVE ReadWordLoop(_, _, _)
ReadWordLoop(s, accept, out) ==
    IF ~StreamOk(s) THEN [s |-> s, out |-> out]
    ELSE LET g == GetChar(s) IN
         IF g.c \notin accept
         THEN [s |-> IF StreamOk(g.s) THEN Putback(g.s, g.c) ELSE g.s, out |-> out]
         ELSE ReadWordLoop(g.s, accept, Append(out, g.c))

ReadWordIf(s, accept) == ReadWordLoop(s, accept, <<>>)

ReadSpaces(s) == ReadWordIf(s, {c \in AllChars : IsSpace(c)})


(***************************************************************************)
(* Tokens: [type, value].  value is the char sequence of an Id or String,  *)
(* the one char of a Char, the int of a Number, and <<>> for the tokens    *)
(* that carry nothing.                                                     *)
(***************************************************************************)
Tok(type) == [type |-> type, value |-> <<>>]
TokV(type, value) == [type |-> type, value |-> value]

(***************************************************************************)
(* The two tokens CreateIndent hands to SplitIntoTokens.                   *)
(*                                                                         *)
(* lexer.h declares struct IndentCounter { bool is_dedent; size_t value; } *)
(* and lexer.cpp builds it from one expression, IndentCounter{n}: the      *)
(* aggregate takes n for its first member, is_dedent, converted to bool,   *)
(* and value is left zero.  (The conversion narrows; the compiler that     *)
(* builds the file warns and goes on.)  What SplitIntoTokens reads back as *)
(* .value is therefore 0, whatever n was.                                  *)
(*                                                                         *)
(* lexer.cpp also builds and reads token_type::DedentCounter{n}, which no  *)
(* file of the repository declares.  It is taken to hold the count n, as   *)
(* the indentation algorithm is described: |delta| / 2 Dedent tokens.      *)
(***************************************************************************)
IndentCounter(n) == [type |-> "IndentCounter", is_dedent |-> n # 0, value |-> 0]
DedentCounter(n) == TokV("DedentCounter", n)

ValuedTypes == {"Number", "Id", "String", "Char"}

\* bool operator==(const Token&, const Token&)
TokenEq(lhs, rhs) ==
    IF lhs.type # rhs.type THEN FALSE
    ELSE IF lhs.type \in ValuedTypes THEN lhs.value = rhs.value
    ELSE TRUE

\* The creator's fields and the stream it reads:
\*   s : the stream, is_new_line_, indent_counter_.
\* Every creator returns [L, tok, err]; err names the exception thrown
\* ("none" when the call returns).
CreatorInit(in) == [s |-> StreamOf(in), is_new_line_ |-> TRUE, indent_counter_ |-> 0]

Ret(L, tok) == [L |-> L, tok |-> tok, err |-> "none"]
Throw(L, err) == [L |-> L, tok |-> Tok("none"), err |-> err]

DigitValue(c) == IF c = "1" THEN 1 ELSE 0

INT_MAX == 2147483647

\* std::stoi on a run of decimal digits; -1 stands for std::out_of_range.
RECURSIVE StoI(_, _)
StoI(digits, acc) ==
    IF digits = <<>> THEN acc
    ELSE LET d == DigitValue(Head(digits)) IN
         IF acc > (INT_MAX - d) \div 10 THEN -1
         ELSE StoI(Tail(digits), acc * 10 + d)

\* Token LexerTokenCreator::CreateIndent(size_t local_indent_counter)
CreateIndent(L, local_indent_counter) ==
    LET delta == local_indent_counter - L.indent_counter_
        step == INDENT_STEP
        L1 == [L EXCEPT !.indent_counter_ = local_indent_counter]
    IN  \* delta is converted to size_t before %: 2^64 is a multiple of
        \* INDENT_STEP, so the remainder is that of the mathematical modulo
        IF delta % INDENT_STEP # 0 THEN Throw(L1, "LexerError")
        ELSE IF delta = 0 THEN Ret(L1, Tok("Savedent"))
        ELSE IF delta >= step THEN Ret(L1, IndentCounter(delta \div step))
        ELSE Ret(L1, DedentCounter((-delta) \div step))

CreateNewLine(L) ==
    Ret([L EXCEPT !.s = GetChar(L.s).s, !.is_new_line_ = TRUE], Tok("Newline"))

CreateEof(L) ==
    Ret([L EXCEPT !.s = GetChar(L.s).s], Tok("Eof"))

CreateNumber(L) ==
    LET r == ReadWordIf(L.s, {c \in AllChars : IsDigit(c)})
        n == StoI(r.out, 0)
    IN  IF n < 0 THEN Throw([L EXCEPT !.s = r.s], "out_of_range")
        ELSE Ret([L EXCEPT !.s = r.s], TokV("Number", n))

CreateString(L) ==
    LET g == GetChar(L.s)
        q == g.c
        r == ReadWordIf(g.s, {c \in AllChars : c # q})
        g2 == GetChar(r.s)
    IN  Ret([L EXCEPT !.s = g2.s], TokV("String", r.out))

CreateSpecialSignOrChar(L) ==
    LET g == GetChar(L.s)
        c == g.c
    IN  IF StreamOk(g.s)
        THEN LET g2 == GetChar(g.s)
                 next_c == g2.c
             IN  IF next_c = "=" /\ <<c, next_c>> \in DOMAIN OPERATION_SIGNS
                 THEN Ret([L EXCEPT !.s = g2.s], Tok(OPERATION_SIGNS[<<c, next_c>>]))
                 ELSE Ret([L EXCEPT !.s = Putback(g2.s, next_c)], TokV("Char", <<c>>))
        ELSE Ret([L EXCEPT !.s = g.s], TokV("Char", <<c>>))

CreateSpecialWordOrId(L) ==
    LET r == ReadWordIf(L.s, {c \in AllChars : IsAlpha(c) \/ IsDigit(c)})
    IN  IF r.out \in DOMAIN SPECIAL_WORDS
        THEN Ret([L EXCEPT !.s = r.s], Tok(SPECIAL_WORDS[r.out]))
        ELSE Ret([L EXCEPT !.s = r.s], TokV("Id", r.out))

RECURSIVE NextToken(_)
RECURSIVE SkipEmptyLinesAndCreateIndent(_)

NextToken(L) ==
    LET e == IsEof(L.s) IN
    IF e.b THEN CreateEof([L EXCEPT !.s = e.s])
    ELSE LET p == PeekChar(e.s)
             c == p.c
             L1 == [L EXCEPT !.s = p.s]
         IN  IF L.is_new_line_ THEN SkipEmptyLinesAndCreateIndent(L1)
             ELSE IF IsSpace(c) THEN NextToken([L1 EXCEPT !.s = SkipSpaces(L1.s)])
             ELSE IF IsJail(c) THEN NextToken([L1 EXCEPT !.s = SkipTillTheEndOfLine(L1.s)])
             ELSE IF IsQuote(c) THEN CreateString(L1)
             ELSE IF IsSpecialSign(c) THEN CreateSpecialSignOrChar(L1)
             ELSE IF IsDigit(c) THEN CreateNumber(L1)
             ELSE IF IsEndOfLine(c) THEN CreateNewLine(L1)
             ELSE CreateSpecialWordOrId(L1)

SkipEmptyLinesAndCreateIndent(L) ==
    LET L1 == [L EXCEPT !.is_new_line_ = FALSE]
        r == ReadSpaces(L1.s)
        e == IsNextEndOfLine(r.s)
        L2 == [L1 EXCEPT !.s = e.s]
    IN  IF e.b THEN NextToken(CreateNewLine(L2).L)
        ELSE CreateIndent(L2, Len(r.out))

\* n copies of a token
Repeat(tok, n) == [i \in 1..n |-> tok]

\* One pass of the while (input) loop of SplitIntoTokens, on the creator L
\* and the deque toks (tokens): the new creator, the new deque and the exception
\* thrown, if any.
LoopBody(L, toks) ==
    LET r == NextToken(L)
        token == r.tok
    IN  IF r.err # "none" THEN [L |-> r.L, tokens |-> toks, err |-> r.err]
        ELSE IF TokenEq(token, Tok("Savedent"))
             THEN [L |-> r.L, tokens |-> toks, err |-> "none"]
        ELSE IF toks = <<>> /\ TokenEq(token, Tok("Newline"))
             THEN [L |-> r.L, tokens |-> toks, err |-> "none"]
        ELSE IF token.type = "IndentCounter"
             THEN [L |-> r.L, tokens |-> toks \o Repeat(Tok("Indent"), token.value),
                   err |-> "none"]
        ELSE IF token.type = "DedentCounter"
             THEN [L |-> r.L, tokens |-> toks \o Repeat(Tok("Dedent"), token.value),
                   err |-> "none"]
        ELSE LET closing ==
                     IF TokenEq(token, Tok("Eof")) /\ r.L.indent_counter_ > 0
                     THEN Repeat(Tok("Dedent"), r.L.indent_counter_ \div INDENT_STEP)
                     ELSE <<>>
             IN  [L |-> r.L, tokens |-> (toks \o closing) \o <<token>>, err |-> "none"]

\* The two checks of SplitIntoTokens after the loop.
CloseTokens(toks) ==
    LET t1 == IF toks # <<>>
                 /\ ~TokenEq(toks[Len(toks)], Tok("Eof"))
                 /\ ~TokenEq(toks[Len(toks)], Tok("Newline"))
              THEN Append(toks, Tok("Newline")) ELSE toks
    IN  IF t1 = <<>> \/ ~TokenEq(t1[Len(t1)], Tok("Eof"))
        THEN Append(t1, Tok("Eof")) ELSE t1

\* SplitIntoTokens run to its end on the bytes in: [tokens, err]; fuel caps
\* the passes of the loop (err = "fuel" when the cap is hit).
RECURSIVE SplitLoop(_, _, _)
SplitLoop(L, toks, fuel) ==
    IF ~StreamOk(L.s) THEN [tokens |-> CloseTokens(toks), err |-> "none"]
    ELSE IF fuel = 0 THEN [tokens |-> toks, err |-> "fuel"]
    ELSE LET b == LoopBody(L, toks) IN
         IF b.err # "none" THEN [tokens |-> b.tokens, err |-> b.err]
         ELSE SplitLoop(b.L, b.tokens, fuel - 1)


(***************************************************************************)
(* SplitIntoTokens as a state machine: one step per pass of its loop.      *)
(***************************************************************************)
RECURSIVE SeqsUpTo(_, _)
SeqsUpTo(S, n) ==
    IF n = 0 THEN {<<>>}
    ELSE LET shorter == SeqsUpTo(S, n - 1)
         IN  shorter \cup {Append(w, c) : w \in shorter, c \in S}

Spaces(n) == [i \in 1..n |-> " "]

\* indent body NL indent body [NL], each body at most one byte that is
\* neither a space nor a newline
TwoLineInputs ==
    LET Bodies == SeqsUpTo(Alphabet \ {" ", NL}, 1)
    IN  {Spaces(i1) \o b1 \o <<NL>> \o Spaces(i2) \o b2 \o t :
            i1 \in 0..MaxIndent, b1 \in Bodies,
            i2 \in 0..MaxIndent, b2 \in Bodies, t \in {<<>>, <<NL>>}}

Inputs == SeqsUpTo(Alphabet, MaxLen) \cup TwoLineInputs

\* No program is being executed while the lexer is studied.
RuntimeIdle ==
    /\ classes = <<>>
    /\ heap = <<>>
    /\ closure = <<>>
    /\ output = <<>>
    /\ call = <<>>
    /\ ret = <<>>
    /\ exec_log = <<>>

LexerInit ==
    /\ token_creator \in {CreatorInit(in) : in \in Inputs}
    /\ tokens = <<>>
    /\ split_pc = "loop"
    /\ current_index_ = 0
    /\ RuntimeIdle

\* while (input) { ... }
SplitPass ==
    /\ split_pc = "loop"
    /\ StreamOk(token_creator.s)
    /\ Len(tokens) < Len(token_creator.s.in) + MaxSpin
    /\ LET b == LoopBody(token_creator, tokens) IN
       /\ token_creator' = b.L
       /\ tokens' = b.tokens
       /\ split_pc' = IF b.err = "none" THEN "loop" ELSE b.err
    /\ UNCHANGED current_index_
    /\ UNCHANGED runtime_vars

\* the loop is left: the closing Newline and Eof, return tokens
SplitReturn ==
    /\ split_pc = "loop"
    /\ ~StreamOk(token_creator.s)
    /\ tokens' = CloseTokens(tokens)
    /\ split_pc' = "returned"
    /\ UNCHANGED <<token_creator, current_index_>>
    /\ UNCHANGED runtime_vars

LexerNext == SplitPass \/ SplitReturn

SpecLexer == LexerInit /\ [][LexerNext]_vars

(***************************************************************************)
(* parse::Lexer: the token sequence and the cursor into it.                *)
(***************************************************************************)

\* The calls after the end of the tokens that are followed.
MaxPast == 3

\* const Token& Lexer::CurrentToken() const
CurrentToken(tokens_, index) ==
    IF index < Len(tokens_) THEN tokens_[index + 1] ELSE Tok("Eof")

\* A variant of Lexer::NextToken that returns the token it leaves.
LexerNextTokenThenMove(tokens_, index) ==
    [current_index_ |-> index + 1, token |-> CurrentToken(tokens_, index)]

\* Token Lexer::NextToken()
LexerNextToken(tokens_, index) ==
    [current_index_ |-> index + 1, token |-> CurrentToken(tokens_, index + 1)]

\* lexer.CurrentToken()
CallCurrentToken ==
    /\ split_pc = "returned"
    /\ ret' = [op |-> "CurrentToken", token |-> CurrentToken(tokens, current_index_)]
    /\ UNCHANGED <<token_creator, tokens, split_pc, current_index_>>
    /\ UNCHANGED <<classes, heap, closure, output, call, exec_log>>

\* lexer.NextToken()
CallNextToken ==
    /\ split_pc = "returned"
    /\ current_index_ < Len(tokens) + MaxPast
    /\ LET next == LexerNextToken(tokens, current_index_) IN
       /\ current_index_' = next.current_index_
       /\ ret' = [op |-> "NextToken", token |-> next.token]
    /\ UNCHANGED <<token_creator, tokens, split_pc>>
    /\ UNCHANGED <<classes, heap, closure, output, call, exec_log>>

\* template <typename T> const T& Lexer::Expect() const: [sig, token] when
\* the current token has type T, [sig, what] of the LexerError otherwise
Expect(tokens_, index, T) ==
    LET Checked(token) ==
            IF token.type # T
            THEN [sig |-> "LexerError", what |-> "Expect token type error"]
            ELSE [sig |-> "ok", token |-> token]
    IN  Checked(CurrentToken(tokens_, index))

\* template <typename T, typename U> void Lexer::Expect(const U& value) const
ExpectValue(tokens_, index, T, value) ==
    LET Checked(expected) ==
            IF expected.sig # "ok" THEN expected
            ELSE IF expected.token.value # value
            THEN [sig |-> "LexerError", what |-> "Expect token value error"]
            ELSE [sig |-> "ok"]
    IN  Checked(Expect(tokens_, index, T))

\* The types asked for, and for the types that have a value the values.
ExpectedTypes == {"Id", "Number", "Newline", "Eof"}
ExpectedValues == {<<"Id", <<"a">>>>, <<"Id", <<"b">>>>, <<"Number", 1>>, <<"Char", "=">>}

\* lexer.Expect<T>()
CallExpect ==
    /\ split_pc = "returned"
    /\ \E T \in ExpectedTypes :
         ret' = [op |-> "Expect", T |-> T, result |-> Expect(tokens, current_index_, T)]
    /\ UNCHANGED <<token_creator, tokens, split_pc, current_index_>>
    /\ UNCHANGED <<classes, heap, closure, output, call, exec_log>>

\* lexer.Expect<T>(value)
CallExpectValue ==
    /\ split_pc = "returned"
    /\ \E e \in ExpectedValues :
         ret' = [op |-> "Expect", T |-> e[1], value |-> e[2],
                 result |-> ExpectValue(tokens, current_index_, e[1], e[2])]
    /\ UNCHANGED <<token_creator, tokens, split_pc, current_index_>>
    /\ UNCHANGED <<classes, heap, closure, output, call, exec_log>>

\* lexer.ExpectNext<T>(): the cursor has moved when Expect throws
CallExpectNext ==
    /\ split_pc = "returned"
    /\ current_index_ < Len(tokens) + MaxPast
    /\ current_index_' = current_index_ + 1
    /\ \E T \in ExpectedTypes :
         ret' = [op |-> "ExpectNext", T |-> T,
                 result |-> Expect(tokens, current_index_ + 1, T)]
    /\ UNCHANGED <<token_creator, tokens, split_pc>>
    /\ UNCHANGED <<classes, heap, closure, output, call, exec_log>>

\* lexer.ExpectNext<T>(value)
CallExpectNextValue ==
    /\ split_pc = "returned"
    /\ current_index_ < Len(tokens) + MaxPast
    /\ current_index_' = current_index_ + 1
    /\ \E e \in ExpectedValues :
         ret' = [op |-> "ExpectNext", T |-> e[1], value |-> e[2],
                 result |-> ExpectValue(tokens, current_index_ + 1, e[1], e[2])]
    /\ UNCHANGED <<token_creator, tokens, split_pc>>
    /\ UNCHANGED <<classes, heap, closure, output, call, exec_log>>

\* Lexer::Lexer(std::istream& input) : tokens_(SplitIntoTokens(input)) is the
\* run of SplitIntoTokens; the calls on the Lexer follow it.
CursorNext ==
    \/ SplitPass \/ SplitReturn
    \/ CallCurrentToken \/ CallNextToken
    \/ CallExpect \/ CallExpectValue \/ CallExpectNext \/ CallExpectNextValue

SpecCursor == LexerInit /\ [][CursorNext]_vars


(***************************************************************************)
(* Properties of the token sequence SplitIntoTokens returns.               *)
(***************************************************************************)
\* how many of the first n tokens of toks have the given type
CountType(toks, type, n) == Cardinality({i \in 1..n : toks[i].type = type})

\* the position of the first Eof of toks (Len(toks) + 1 when it has none)
FirstEof(toks) ==
    IF \E i \in 1..Len(toks) : toks[i].type = "Eof"
    THEN CHOOSE i \in 1..Len(toks) :
            /\ toks[i].type = "Eof"
            /\ \A j \in 1..(i - 1) : toks[j].type # "Eof"
    ELSE Len(toks) + 1

IndentsBalanced(toks) ==
    /\ CountType(toks, "Dedent", Len(toks)) = CountType(toks, "Indent", Len(toks))
    /\ \A n \in 1..Len(toks) :
          CountType(toks, "Dedent", n) <= CountType(toks, "Indent", n)
    /\ \A i \in 1..Len(toks) :
          toks[i].type \in {"Indent", "Dedent"} => i < FirstEof(toks)

\* C1: whenever the lexer returns a token sequence, it holds as many Dedent
\* as Indent tokens, no prefix of it holds more Dedents than Indents, and
\* all of them come before Eof.
C1_IndentsBalanced ==
    split_pc = "returned" => IndentsBalanced(tokens)

EndsWithNewlineEof(toks) ==
    /\ CountType(toks, "Eof", Len(toks)) = 1
    /\ toks[Len(toks)].type = "Eof"
    /\ Len(toks) > 1 => toks[Len(toks) - 1].type = "Newline"

\* C2: the token sequence the lexer returns holds exactly one Eof, its last
\* token, and the token before Eof is Newline unless the sequence is Eof
\* alone.
C2_NewlineBeforeEof ==
    split_pc = "returned" => EndsWithNewlineEof(tokens)

\* The physical lines of the bytes in that end with a newline: <<a, b>>
\* when in[b] is a newline and a follows the newline before it.
TerminatedLines(in) ==
    {<<a, b>> \in (1..Len(in)) \X (1..Len(in)) :
        /\ a <= b /\ in[b] = NL
        /\ \A i \in a..(b - 1) : in[i] # NL
        /\ (a = 1 \/ in[a - 1] = NL)}

\* The line holds nothing, only spaces, or spaces and then a comment.
IsSkippedLine(in, line) ==
    \E c \in line[1]..line[2] :
        /\ \A i \in line[1]..(c - 1) : in[i] = " "
        /\ in[c] \in {NL, "#"}

\* The bytes in without those of the line.
WithoutLine(in, line) ==
    SubSeq(in, 1, line[1] - 1) \o SubSeq(in, line[2] + 1, Len(in))

\* C13: when the lexer returns, its token sequence is the one it returns for
\* the input without any one line that is empty, holds only spaces or holds
\* only a comment: such a line leaves no token and no change of indentation.
\* (Inputs with a quote are left out: a newline may then be part of a string.)
C13_SkippedLinesLeaveNoToken ==
    (split_pc = "returned" /\ \A i \in DOMAIN token_creator.s.in : ~IsQuote(token_creator.s.in[i])) =>
        \A line \in TerminatedLines(token_creator.s.in) :
            IsSkippedLine(token_creator.s.in, line) =>
                SplitLoop(CreatorInit(WithoutLine(token_creator.s.in, line)), <<>>,
                          Len(token_creator.s.in) + MaxSpin + 2)
                    = [tokens |-> tokens, err |-> "none"]

\* The bytes the lexer has a token or a rule for.
IsKnownByte(c) ==
    IsSpace(c) \/ IsEndOfLine(c) \/ IsJail(c) \/ IsQuote(c) \/ IsDigit(c) \/ IsAlpha(c)
    \/ IsSpecialSign(c)

\* The input holds neither a quote nor a comment, so that each of its bytes
\* is outside string literals and comments.
IsPlainInput(in) == \A i \in DOMAIN in : ~IsQuote(in[i]) /\ ~IsJail(in[i])

\* The next pass of the loop starts at a byte the lexer has no rule for.
AtUnknownByte ==
    /\ split_pc = "loop"
    /\ StreamGood(token_creator.s)
    /\ ~token_creator.is_new_line_
    /\ token_creator.s.pos < Len(token_creator.s.in)
    /\ ~IsKnownByte(token_creator.s.in[token_creator.s.pos + 1])
    /\ IsPlainInput(token_creator.s.in)

\* C14: a pass of the lexer that starts at a byte that is no space, newline,
\* '#', quote, digit, letter, underscore or listed punctuation, outside
\* string literals and comments, throws LexerError; and the lexer returns
\* no token sequence for an input that holds such a byte.
C14_UnknownByteFails ==
    /\ [](split_pc = "returned" =>
            (IsPlainInput(token_creator.s.in) =>
                \A i \in DOMAIN token_creator.s.in : IsKnownByte(token_creator.s.in[i])))
    /\ [][AtUnknownByte => split_pc' = "LexerError"]_vars

\* The input holds one quote and no comment: a string literal is opened
\* and never closed.
HasUnterminatedString(in) ==
    /\ Cardinality({i \in DOMAIN in : IsQuote(in[i])}) = 1
    /\ \A i \in DOMAIN in : ~IsJail(in[i])

\* C15: for an input whose string literal has no closing quote the lexer
\* returns no token sequence and makes no String token (it throws
\* LexerError instead): a String token is made only when the closing quote
\* was read.
C15_UnterminatedStringFails ==
    HasUnterminatedString(token_creator.s.in) =>
        /\ split_pc # "returned"
        /\ \A i \in DOMAIN tokens : tokens[i].type # "String"


(***************************************************************************)
(* ----------------------------- RUNTIME --------------------------------- *)
(***************************************************************************)

\* An ObjectHolder: [t, v].  t is the dynamic type of the held object
\* ("None" for the empty holder); v is the value of a ValueObject, the name
\* of a Class, or the identity of a ClassInstance.
NoneV == [t |-> "None", v |-> 0]
NumberV(n) == [t |-> "Number", v |-> n]
StringV(str) == [t |-> "String", v |-> str]
BoolV(b) == [t |-> "Bool", v |-> b]
ClassV(name) == [t |-> "Class", v |-> name]
InstanceV(inst) == [t |-> "Instance", v |-> inst]

\* ObjectHolder::operator bool
Holds(oh) == oh.t # "None"

\* ObjectHolder::IsType<T> / TryAs<T>
IsType(oh, type) == oh.t = type

\* Two holders denote the same object state.
SameObject(a, b) == a.t = b.t /\ a.v = b.v

\* runtime::Closure = unordered_map<string, ObjectHolder>
EmptyClosure == [n \in {} |-> NoneV]

\* closure.count(name)
Count(cl, name) == IF name \in DOMAIN cl THEN 1 ELSE 0

\* closure[name] = oh
Bind(cl, name, oh) == [n \in (DOMAIN cl) \cup {name} |-> IF n = name THEN oh ELSE cl[n]]

\* closure.emplace(name, oh): an existing binding is kept
Emplace(cl, name, oh) == IF name \in DOMAIN cl THEN cl ELSE Bind(cl, name, oh)

SELF == "self"
STR == "__str__"
EQ == "__eq__"
LT == "__lt__"
ADD_METHOD == "__add__"
INIT_METHOD == "__init__"
STR_METHOD == "__str__"

\* bool IsTrue(const ObjectHolder&)
IsTrue(object) ==
    IF ~Holds(object) THEN FALSE
    ELSE IF IsType(object, "String") THEN object.v # <<>>
    ELSE IF IsType(object, "Number") THEN object.v # 0
    ELSE IF IsType(object, "Bool") THEN object.v # FALSE
    ELSE FALSE

\* const Method*: the class that holds the method and its position in
\* methods_; nullptr is position 0.
NullMethod == [cls |-> "", idx |-> 0]
MethodAt(cls, idx) == [cls |-> cls, idx |-> idx]
IsNullMethod(m) == m.idx = 0
Deref(ct, m) == ct[m.cls].methods[m.idx]

\* Class without a parent (parent_ == nullptr)
NoParent == ""

\* std::find_if over methods_ by name: the first position, 0 for end()
FindMethod(methods, name) ==
    LET hits == {i \in 1..Len(methods) : methods[i].name = name}
    IN  IF hits = {} THEN 0 ELSE CHOOSE i \in hits : \A j \in hits : i <= j

RECURSIVE ClassGetMethod(_, _, _)
\* const Method* Class::GetMethod(const std::string& name) const
ClassGetMethod(ct, cls, name) ==
    LET it == FindMethod(ct[cls].methods, name)
    IN  IF it = 0
        THEN IF ct[cls].parent # NoParent
             THEN ClassGetMethod(ct, ct[cls].parent, name)
             ELSE NullMethod
        ELSE MethodAt(cls, it)

\* const Method* Class::GetMethod(const std::string& name, size_t args_count) const
ClassGetMethodN(ct, cls, name, args_count) ==
    LET Matching(ptr_method) ==
            IF ~IsNullMethod(ptr_method)
               /\ Len(Deref(ct, ptr_method).formal_params) = args_count
            THEN ptr_method
            ELSE NullMethod
    IN  Matching(ClassGetMethod(ct, cls, name))

\* const Method* ClassInstance::TryMethod(method, argument_count) const
TryMethod(ct, hp, inst, method, argument_count) ==
    ClassGetMethodN(ct, hp[inst].cls, method, argument_count)

\* A variant of HasMethod that looks at the name of the method alone.
HasMethodByName(ct, hp, inst, method, argument_count) ==
    ~IsNullMethod(ClassGetMethod(ct, hp[inst].cls, method))

\* bool ClassInstance::HasMethod(method, argument_count) const
HasMethod(ct, hp, inst, method, argument_count) ==
    ~IsNullMethod(TryMethod(ct, hp, inst, method, argument_count))

RECURSIVE EmplaceParams(_, _, _, _)
\* the loop of CreateLocalClosure: [sig, closure], sig being "ok" or
\* "out_of_range", the exception actual_args.at(i) throws past the end
EmplaceParams(cl, formal_params, actual_args, i) ==
    IF i > Len(formal_params) THEN [sig |-> "ok", closure |-> cl]
    ELSE IF i > Len(actual_args) THEN [sig |-> "out_of_range", closure |-> EmptyClosure]
    ELSE EmplaceParams(Emplace(cl, formal_params[i], actual_args[i]),
                       formal_params, actual_args, i + 1)

\* Closure ClassInstance::CreateLocalClosure(formal_params, actual_args):
\* [sig, closure].  The assert is compiled in unless the build defines
\* NDEBUG; when it fails the process is ended by abort() ("terminated").
CreateLocalClosure(inst, formal_params, actual_args, NDEBUG) ==
    IF ~NDEBUG /\ Len(formal_params) # Len(actual_args)
    THEN [sig |-> "terminated", closure |-> EmptyClosure]
    ELSE EmplaceParams(Emplace(EmptyClosure, SELF, InstanceV(inst)),
                       formal_params, actual_args, 1)

(***************************************************************************)
(* The evaluator.  Execute(closure, context) of a node is Exec(node, cl,   *)
(* g): cl is the closure passed by reference, g is everything else the     *)
(* call can reach: the classes (ct), the ClassInstance objects (heap), the *)
(* context's output stream (out) and the record of what was executed       *)
(* (log).  The result is [sig, val, cl, g]: sig is "ok" for a normal       *)
(* return with value val, or the type of the exception in flight.          *)
(***************************************************************************)
Ok(val, cl, g) == [sig |-> "ok", val |-> val, cl |-> cl, g |-> g]
Thrown(sig, val, cl, g) == [sig |-> sig, val |-> val, cl |-> cl, g |-> g]
RuntimeError(cl, g) == Thrown("runtime_error", NoneV, cl, g)
IsOk(r) == r.sig = "ok"

Event(e, k, x) == [e |-> e, k |-> k, x |-> x]
Log(g, ev) == [g EXCEPT !.log = Append(@, ev)]
Write(g, chars) == [g EXCEPT !.out = @ \o chars]
Context(ct, hp) ==
    [ct |-> ct, heap |-> hp, out |-> <<>>, log |-> <<>>, on_overflow |-> "wraps",
     NDEBUG |-> FALSE]

\* The characters the modelled programs use, in the order of their codes.
CharOrder ==
    <<" ", "-", "0", "1", "2", "3", "4", "5", "6", "7", "8", "9",
      "C", "F", "N", "T", "_", "a", "b", "c", "e", "l", "n", "o", "r", "s", "u", "x">>
Ord(c) == CHOOSE i \in 1..Len(CharOrder) : CharOrder[i] = c

RECURSIVE StringLess(_, _)
\* operator< of std::string: lexicographic, a proper prefix is smaller
StringLess(a, b) ==
    IF b = <<>> THEN FALSE
    ELSE IF a = <<>> THEN TRUE
    ELSE IF Head(a) # Head(b) THEN Ord(Head(a)) < Ord(Head(b))
    ELSE StringLess(Tail(a), Tail(b))

\* cmp(lhs.GetValue(), rhs.GetValue()) for std::equal_to / std::less
CmpValues(cmp, type, a, b) ==
    IF cmp = "equal_to" THEN a = b
    ELSE IF type = "String" THEN StringLess(a, b)
    ELSE IF type = "Number" THEN a < b
    ELSE (~a) /\ b

RECURSIVE Exec(_, _, _)
RECURSIVE InstanceCall(_, _, _, _)
RECURSIVE InstanceCallMethod(_, _, _, _)

\* template <typename Compare> bool MakeComparison(lhs, rhs, context, func_name, cmp)
MakeComparison(lhs, rhs, g, func_name, cmp) ==
    LET Coerced(r) == IF IsOk(r) THEN Ok(IsTrue(r.val), EmptyClosure, r.g)
                      ELSE Thrown(r.sig, r.val, EmptyClosure, r.g)
    IN  IF Holds(lhs) /\ Holds(rhs)
        THEN IF IsType(lhs, "Instance")
             THEN Coerced(InstanceCall(lhs.v, func_name, <<rhs>>, g))
             ELSE IF lhs.t = rhs.t /\ lhs.t \in {"String", "Number", "Bool"}
             THEN Ok(CmpValues(cmp, lhs.t, lhs.v, rhs.v), EmptyClosure, g)
             ELSE RuntimeError(EmptyClosure, g)
        ELSE RuntimeError(EmptyClosure, g)

\* return !b, where computing b may have thrown
Negated(b) == IF IsOk(b) THEN Ok(~b.val, EmptyClosure, b.g) ELSE b

\* A variant of Equal without the case of two empty holders.
EqualWithoutNoneCase(lhs, rhs, g) == MakeComparison(lhs, rhs, g, EQ, "equal_to")

\* bool Equal(lhs, rhs, context)
Equal(lhs, rhs, g) ==
    IF ~Holds(lhs) /\ ~Holds(rhs) THEN Ok(TRUE, EmptyClosure, g)
    ELSE MakeComparison(lhs, rhs, g, EQ, "equal_to")

\* bool Less(lhs, rhs, context)
Less(lhs, rhs, g) == MakeComparison(lhs, rhs, g, LT, "less")

\* bool NotEqual(lhs, rhs, context): !Equal(lhs, rhs, context)
NotEqual(lhs, rhs, g) == Negated(Equal(lhs, rhs, g))

\* A variant of Greater that is !Less(lhs, rhs, context) alone.
GreaterNotLess(lhs, rhs, g) == Negated(Less(lhs, rhs, g))

\* bool Greater(lhs, rhs, context): !Less(lhs, rhs, context) && !Equal(lhs, rhs, context)
Greater(lhs, rhs, g) ==
    LET AndNotEqual(l) == IF ~IsOk(l) THEN l
                          ELSE IF l.val THEN Ok(FALSE, EmptyClosure, l.g)
                          ELSE Negated(Equal(lhs, rhs, l.g))
    IN  AndNotEqual(Less(lhs, rhs, g))

\* bool LessOrEqual(lhs, rhs, context): !Greater(lhs, rhs, context)
LessOrEqual(lhs, rhs, g) == Negated(Greater(lhs, rhs, g))

\* bool GreaterOrEqual(lhs, rhs, context): !Less(lhs, rhs, context)
GreaterOrEqual(lhs, rhs, g) == Negated(Less(lhs, rhs, g))

\* Comparison::Comparator, by the name of the function it holds
ApplyComparator(cmp, lhs, rhs, g) ==
    CASE cmp = "Equal" -> Equal(lhs, rhs, g)
      [] cmp = "NotEqual" -> NotEqual(lhs, rhs, g)
      [] cmp = "Less" -> Less(lhs, rhs, g)
      [] cmp = "Greater" -> Greater(lhs, rhs, g)
      [] cmp = "LessOrEqual" -> LessOrEqual(lhs, rhs, g)
      [] cmp = "GreaterOrEqual" -> GreaterOrEqual(lhs, rhs, g)

\* AST nodes (statement.h).  k is the class of the node; lbl is a mark that
\* tells apart the nodes of a program in the log.
NumericConst(n) == [k |-> "NumericConst", lbl |-> "", value |-> NumberV(n)]
StringConst(str) == [k |-> "StringConst", lbl |-> "", value |-> StringV(str)]
BoolConst(b) == [k |-> "BoolConst", lbl |-> "", value |-> BoolV(b)]
None == [k |-> "None", lbl |-> ""]
VariableValue(dotted_ids) == [k |-> "VariableValue", lbl |-> "", dotted_ids |-> dotted_ids]
Assignment(var, rv) == [k |-> "Assignment", lbl |-> "", var |-> var, rv |-> rv]
FieldAssignment(object, field_name, rv) ==
    [k |-> "FieldAssignment", lbl |-> "", object |-> object, field_name |-> field_name, rv |-> rv]
\* ci is the identity of the ClassInstance the node owns (its member ci_).
NewInstance(ci, args) == [k |-> "NewInstance", lbl |-> "", ci |-> ci, args |-> args]
PrintStmt(args) == [k |-> "Print", lbl |-> "", args |-> args]
MethodCall(object, method, args) ==
    [k |-> "MethodCall", lbl |-> "", object |-> object, method |-> method, args |-> args]
Stringify(arg) == [k |-> "Stringify", lbl |-> "", arg |-> arg]
Add(lhs, rhs) == [k |-> "Add", lbl |-> "", lhs |-> lhs, rhs |-> rhs]
Sub(lhs, rhs) == [k |-> "Sub", lbl |-> "", lhs |-> lhs, rhs |-> rhs]
Mult(lhs, rhs) == [k |-> "Mult", lbl |-> "", lhs |-> lhs, rhs |-> rhs]
Div(lhs, rhs) == [k |-> "Div", lbl |-> "", lhs |-> lhs, rhs |-> rhs]
Compound(operations) == [k |-> "Compound", lbl |-> "", operations |-> operations]
Or(lhs, rhs) == [k |-> "Or", lbl |-> "", lhs |-> lhs, rhs |-> rhs]
And(lhs, rhs) == [k |-> "And", lbl |-> "", lhs |-> lhs, rhs |-> rhs]
Not(arg) == [k |-> "Not", lbl |-> "", arg |-> arg]
Comparison(cmp, lhs, rhs) == [k |-> "Comparison", lbl |-> "", cmp |-> cmp, lhs |-> lhs, rhs |-> rhs]
Return(statement) == [k |-> "Return", lbl |-> "", statement |-> statement]
MethodBody(body) == [k |-> "MethodBody", lbl |-> "", body |-> body]
ClassDefinition(cls) == [k |-> "ClassDefinition", lbl |-> "", cls |-> cls]
\* else_body is <<>> for a null else_body_.
IfElse(condition, if_body, else_body) ==
    [k |-> "IfElse", lbl |-> "", condition |-> condition, if_body |-> if_body, else_body |-> else_body]
Labelled(node, lbl) == [node EXCEPT !.lbl = lbl]

\* runtime::Method and runtime::Class
Method(name, formal_params, body) == [name |-> name, formal_params |-> formal_params, body |-> body]
Class(name, methods, parent) == [name |-> name, methods |-> methods, parent |-> parent]
\* runtime::ClassInstance of class cls: closure_ starts empty
ClassInstance(cls) == [cls |-> cls, fields |-> EmptyClosure]

DigitChars == <<"0", "1", "2", "3", "4", "5", "6", "7", "8", "9">>

RECURSIVE NatToChars(_)
NatToChars(n) ==
    IF n < 10 THEN <<DigitChars[n + 1]>>
    ELSE NatToChars(n \div 10) \o <<DigitChars[(n % 10) + 1]>>

\* os << int
IntToChars(n) == IF n < 0 THEN <<"-">> \o NatToChars(-n) ELSE NatToChars(n)

TRUE_STR == <<"T", "r", "u", "e">>
FALSE_STR == <<"F", "a", "l", "s", "e">>
NONE_STR == <<"N", "o", "n", "e">>
CLASS_STR == <<"C", "l", "a", "s", "s">>

\* os << this: the address of the instance, one opaque piece of text
AddressOf(inst) == <<"&", inst>>

\* os << chars, where os is the context's stream (to_context) or a stream
\* of the caller whose text so far is os
Put(os, g, to_context, chars) ==
    IF to_context THEN [os |-> os, g |-> Write(g, chars)]
    ELSE [os |-> os \o chars, g |-> g]

RECURSIVE PrintObject(_, _, _, _)
\* Object::Print(os, context) of the object held by oh, which is not empty.
\* The result's val is the text of os.
PrintObject(oh, os, g, to_context) ==
    LET Done(p) == Ok(p.os, EmptyClosure, p.g)
        PrintStr(r) ==
            IF ~IsOk(r) THEN Thrown(r.sig, r.val, EmptyClosure, r.g)
            ELSE IF ~Holds(r.val) THEN Thrown("null_dereference", NoneV, EmptyClosure, r.g)
            ELSE PrintObject(r.val, os, r.g, to_context)
        PrintInstance(ptr_method) ==
            IF ~IsNullMethod(ptr_method)
            THEN PrintStr(InstanceCallMethod(oh.v, ptr_method, <<>>, g))
            ELSE Done(Put(os, g, to_context, AddressOf(oh.v)))
    IN  CASE oh.t = "Number" -> Done(Put(os, g, to_context, IntToChars(oh.v)))
          [] oh.t = "String" -> Done(Put(os, g, to_context, oh.v))
          [] oh.t = "Bool" ->
               Done(Put(os, g, to_context, IF oh.v THEN TRUE_STR ELSE FALSE_STR))
          [] oh.t = "Class" ->
               Done(Put(os, g, to_context, CLASS_STR \o <<" ">> \o <<g.ct[oh.v].name>>))
          [] oh.t = "Instance" -> PrintInstance(TryMethod(g.ct, g.heap, oh.v, STR, 0))

RECURSIVE WalkDottedIds(_, _, _, _)
\* the loop of VariableValue::Execute: the closure ptr_closure points to
\* when the loop is left
WalkDottedIds(dotted_ids, i, ptr_closure, hp) ==
    IF i < Len(dotted_ids)
    THEN LET id == dotted_ids[i]
         IN  IF Count(ptr_closure, id) # 0 /\ IsType(ptr_closure[id], "Instance")
             THEN WalkDottedIds(dotted_ids, i + 1, hp[ptr_closure[id].v].fields, hp)
             ELSE ptr_closure
    ELSE ptr_closure

\* ObjectHolder VariableValue::Execute(closure, context)
ExecVariableValue(node, cl, g) ==
    LET back == node.dotted_ids[Len(node.dotted_ids)]
        Lookup(ptr_closure) ==
            IF Count(ptr_closure, back) = 0
            THEN RuntimeError(cl, g)
            ELSE Ok(ptr_closure[back], cl, g)
    IN  Lookup(WalkDottedIds(node.dotted_ids, 1, cl, g.heap))

\* A variant of Assignment::Execute that binds the name to a copy of the
\* instance instead of the instance itself.
ExecAssignmentByValue(node, cl, g) ==
    LET Copied(r, copy) ==
            Ok(InstanceV(copy), Bind(r.cl, node.var, InstanceV(copy)),
               [r.g EXCEPT !.heap = [i \in (DOMAIN r.g.heap) \cup {copy} |->
                                        IF i = copy THEN r.g.heap[r.val.v] ELSE r.g.heap[i]]])
        Assign(r) ==
            IF ~IsOk(r) THEN r
            ELSE IF IsType(r.val, "Instance") THEN Copied(r, r.val.v \o "'")
            ELSE Ok(r.val, Bind(r.cl, node.var, r.val), r.g)
    IN  Assign(Exec(node.rv, cl, g))

\* ObjectHolder Assignment::Execute(closure, context)
ExecAssignment(node, cl, g) ==
    LET Assign(r) == IF ~IsOk(r) THEN r
                     ELSE Ok(r.val, Bind(r.cl, node.var, r.val), r.g)
    IN  Assign(Exec(node.rv, cl, g))

\* p->Fields()[field_name] = oh
SetField(g, inst, field_name, oh) ==
    [g EXCEPT !.heap[inst].fields = Bind(@, field_name, oh)]

\* A variant of FieldAssignment::Execute that does not set the field self.
ExecFieldAssignmentButSelf(node, cl, g) ==
    LET Store(p, r) ==
            IF ~IsOk(r) THEN r
            ELSE IF node.field_name = SELF THEN Ok(NoneV, r.cl, r.g)
            ELSE Ok(r.val, r.cl, SetField(r.g, p, node.field_name, r.val))
        OnObject(oh) ==
            IF ~IsOk(oh) THEN oh
            ELSE IF IsType(oh.val, "Instance")
            THEN Store(oh.val.v, Exec(node.rv, oh.cl, oh.g))
            ELSE Ok(NoneV, oh.cl, oh.g)
    IN  OnObject(Exec(node.object, cl, g))

\* A variant of FieldAssignment::Execute that throws when the object is no
\* instance.
ExecFieldAssignmentStrict(node, cl, g) ==
    LET Store(p, r) ==
            IF ~IsOk(r) THEN r
            ELSE Ok(r.val, r.cl, SetField(r.g, p, node.field_name, r.val))
        OnObject(oh) ==
            IF ~IsOk(oh) THEN oh
            ELSE IF IsType(oh.val, "Instance")
            THEN Store(oh.val.v, Exec(node.rv, oh.cl, oh.g))
            ELSE RuntimeError(oh.cl, oh.g)
    IN  OnObject(Exec(node.object, cl, g))

\* ObjectHolder FieldAssignment::Execute(closure, context)
ExecFieldAssignment(node, cl, g) ==
    LET Store(p, r) ==
            IF ~IsOk(r) THEN r
            ELSE Ok(r.val, r.cl, SetField(r.g, p, node.field_name, r.val))
        OnObject(oh) ==
            IF ~IsOk(oh) THEN oh
            ELSE IF IsType(oh.val, "Instance")
            THEN Store(oh.val.v, Exec(node.rv, oh.cl, oh.g))
            ELSE Ok(NoneV, oh.cl, oh.g)
    IN  OnObject(Exec(node.object, cl, g))

RECURSIVE ExecArgs(_, _, _, _, _)
\* for (const auto& args_i : args_) args_values.push_back(args_i->Execute(closure, context));
\* the result's val is args_values
ExecArgs(args, i, cl, g, args_values) ==
    LET PushBack(r) == IF ~IsOk(r) THEN r
                       ELSE ExecArgs(args, i + 1, r.cl, r.g, Append(args_values, r.val))
    IN  IF i > Len(args) THEN Ok(args_values, cl, g)
        ELSE PushBack(Exec(args[i], cl, g))

\* A variant of NewInstance::Execute that makes a new instance, one without
\* fields, at each evaluation.
ExecNewInstanceOfNew(node, cl, g) ==
    LET Share(a, r) == IF ~IsOk(r) THEN Thrown(r.sig, r.val, a.cl, r.g)
                       ELSE Ok(InstanceV(node.ci), a.cl, r.g)
        Init(a) == IF ~IsOk(a) THEN a
                   ELSE Share(a, InstanceCall(node.ci, INIT_METHOD, a.val,
                                              [a.g EXCEPT !.heap[node.ci].fields = EmptyClosure]))
    IN  IF HasMethod(g.ct, g.heap, node.ci, INIT_METHOD, Len(node.args))
        THEN Init(ExecArgs(node.args, 1, cl, g, <<>>))
        ELSE Ok(InstanceV(node.ci), cl, [g EXCEPT !.heap[node.ci].fields = EmptyClosure])

\* ObjectHolder NewInstance::Execute(closure, context)
ExecNewInstance(node, cl, g) ==
    LET Share(a, r) == IF ~IsOk(r) THEN Thrown(r.sig, r.val, a.cl, r.g)
                       ELSE Ok(InstanceV(node.ci), a.cl, r.g)
        Init(a) == IF ~IsOk(a) THEN a
                   ELSE Share(a, InstanceCall(node.ci, INIT_METHOD, a.val, a.g))
    IN  IF HasMethod(g.ct, g.heap, node.ci, INIT_METHOD, Len(node.args))
        THEN Init(ExecArgs(node.args, 1, cl, g, <<>>))
        ELSE Ok(InstanceV(node.ci), cl, g)

RECURSIVE PrintArgs(_, _, _, _)
\* the loop of Print::Execute
PrintArgs(args, i, cl, g) ==
    LET Printed(oh, p) == IF ~IsOk(p) THEN Thrown(p.sig, p.val, oh.cl, p.g)
                          ELSE PrintArgs(args, i + 1, oh.cl, p.g)
        PrintArg(oh) ==
            IF ~IsOk(oh) THEN oh
            ELSE IF Holds(oh.val) THEN Printed(oh, PrintObject(oh.val, <<>>, oh.g, TRUE))
            ELSE PrintArgs(args, i + 1, oh.cl, Write(oh.g, NONE_STR))
    IN  IF i > Len(args) THEN Ok(NoneV, cl, g)
        ELSE PrintArg(Exec(args[i], cl, IF i > 1 THEN Write(g, <<" ">>) ELSE g))

\* A variant of Print::Execute that does not end the line.
ExecPrintNoNewline(node, cl, g) ==
    LET EndLine(r) == IF ~IsOk(r) THEN r ELSE Ok(NoneV, r.cl, r.g)
    IN  EndLine(PrintArgs(node.args, 1, cl, g))

\* ObjectHolder Print::Execute(closure, context)
ExecPrint(node, cl, g) ==
    LET EndLine(r) == IF ~IsOk(r) THEN r
                      ELSE Ok(NoneV, r.cl, Write(r.g, <<NL>>))
    IN  EndLine(PrintArgs(node.args, 1, cl, g))

\* ObjectHolder Stringify::Execute(closure, context): the object is printed
\* to a stringstream under a DummyContext, whose stream is not the program's
ExecStringify(node, cl, g) ==
    LET Back(p, out) == [p.g EXCEPT !.out = out]
        AsString(a, s1, p) ==
            IF ~IsOk(p) THEN Thrown(p.sig, p.val, a.cl, Back(p, s1.g.out))
            ELSE Ok(StringV(p.val), a.cl, Back(p, s1.g.out))
        ToText(a, s1) ==
            IF ~IsOk(s1) THEN Thrown(s1.sig, s1.val, a.cl, s1.g)
            ELSE IF ~Holds(s1.val) THEN Ok(StringV(NONE_STR), a.cl, s1.g)
            ELSE AsString(a, s1, PrintObject(s1.val, <<>>, [s1.g EXCEPT !.out = <<>>], FALSE))
        OnArg(a) ==
            IF ~IsOk(a) THEN a
            ELSE IF IsType(a.val, "Instance")
                    /\ HasMethod(a.g.ct, a.g.heap, a.val.v, STR_METHOD, 0)
            THEN ToText(a, InstanceCall(a.val.v, STR_METHOD, <<>>, a.g))
            ELSE ToText(a, Ok(a.val, a.cl, a.g))
    IN  OnArg(Exec(node.arg, cl, g))

\* A variant of MethodCall::Execute that throws when the receiver is no
\* instance or does not have the method.
ExecMethodCallStrict(node, cl, g) ==
    LET Returned1(a, r) == Thrown(r.sig, r.val, a.cl, r.g)
        CallWith(p, a) == IF ~IsOk(a) THEN a
                          ELSE Returned1(a, InstanceCall(p, node.method, a.val, a.g))
        OnObject(oh) ==
            IF ~IsOk(oh) THEN oh
            ELSE IF IsType(oh.val, "Instance")
                    /\ HasMethod(oh.g.ct, oh.g.heap, oh.val.v, node.method, Len(node.args))
            THEN CallWith(oh.val.v, ExecArgs(node.args, 1, oh.cl, oh.g, <<>>))
            ELSE RuntimeError(oh.cl, oh.g)
    IN  OnObject(Exec(node.object, cl, g))

\* ObjectHolder MethodCall::Execute(closure, context)
ExecMethodCall(node, cl, g) ==
    LET Returned1(a, r) == Thrown(r.sig, r.val, a.cl, r.g)
        CallWith(p, a) == IF ~IsOk(a) THEN a
                          ELSE Returned1(a, InstanceCall(p, node.method, a.val, a.g))
        OnObject(oh) ==
            IF ~IsOk(oh) THEN oh
            ELSE IF IsType(oh.val, "Instance")
                    /\ HasMethod(oh.g.ct, oh.g.heap, oh.val.v, node.method, Len(node.args))
            THEN CallWith(oh.val.v, ExecArgs(node.args, 1, oh.cl, oh.g, <<>>))
            ELSE Ok(NoneV, oh.cl, oh.g)
    IN  OnObject(Exec(node.object, cl, g))

\* lhs_oh = GetLhs()->Execute(...); rhs_oh = GetRhs()->Execute(...);
\* the result's val is <<lhs_oh, rhs_oh>>
ExecOperands(node, cl, g) ==
    LET Both(lhs_oh, rhs_oh) ==
            IF ~IsOk(rhs_oh) THEN rhs_oh
            ELSE Ok(<<lhs_oh.val, rhs_oh.val>>, rhs_oh.cl, rhs_oh.g)
        Right(lhs_oh) ==
            IF ~IsOk(lhs_oh) THEN lhs_oh
            ELSE Both(lhs_oh, Exec(node.rhs, lhs_oh.cl, lhs_oh.g))
    IN  Right(Exec(node.lhs, cl, g))

\* The value of a runtime::Number is an int: the least int.
INT_MIN == -INT_MAX - 1

\* The result of an int operation: its value in two's complement and whether
\* the exact result is outside INT_MIN..INT_MAX (where the behaviour of the
\* C++ operator is undefined).
IntResult(v, overflow) == [v |-> v, overflow |-> overflow]

\* int + int
IntAdd(a, b) ==
    IF b > 0 /\ a > INT_MAX - b
    THEN IntResult((a - INT_MAX - 1) + (b - INT_MAX - 1), TRUE)
    ELSE IF b < 0 /\ a < INT_MIN - b
    THEN IntResult((a + INT_MAX + 1) + (b + INT_MAX + 1), TRUE)
    ELSE IntResult(a + b, FALSE)

\* int - int
IntSub(a, b) ==
    IF b = INT_MIN
    THEN IF a < 0 THEN IntResult((a + INT_MAX) + 1, FALSE)
         ELSE IntResult(a + INT_MIN, TRUE)
    ELSE IntAdd(a, -b)

\* The low 32 - k bits of x moved up by k bits, in two's complement
ShiftLeft(x, k) ==
    LET Signed(low, m) == IF low >= m \div 2 THEN low - m ELSE low
        Low(m) == Signed(x % m, m)
    IN  Low(2^(32 - k)) * 2^k

\* The exact product of a and b is outside INT_MIN..INT_MAX.
MultOverflows(a, b) ==
    LET abs(x) == IF x < 0 THEN -x ELSE x
        Beyond(m, n) ==
            /\ m > INT_MAX \div n
            /\ ~(/\ (a < 0) # (b < 0)
                 /\ m = (INT_MAX \div n) + 1 /\ INT_MAX % n = n - 1)
    IN  IF a = 0 \/ b = 0 THEN FALSE
        ELSE IF a = INT_MIN THEN b # 1
        ELSE IF b = INT_MIN THEN a # 1
        ELSE Beyond(abs(a), abs(b))

\* int * int: the low 32 bits of the product of the 16-bit halves of a and b
IntMult(a, b) ==
    LET High(x) == x \div 65536
        Low(x) == x % 65536
        Cross == IntAdd(High(a) * Low(b), Low(a) * High(b)).v
        LowLow == IntAdd(ShiftLeft(Low(a) * (Low(b) \div 256), 8), Low(a) * (Low(b) % 256)).v
    IN  IntResult(IntAdd(ShiftLeft(Cross, 16), LowLow).v, MultOverflows(a, b))

\* What an int operation whose exact result is no int leaves: the build
\* either goes on with the two's complement value or the process is
\* terminated by a trap (g.on_overflow).
OverflowOutcomes == {"wraps", "traps"}
NumberResult(r, cl, g) ==
    IF r.overflow /\ g.on_overflow = "traps" THEN Thrown("terminated", NoneV, cl, g)
    ELSE Ok(NumberV(r.v), cl, g)

\* A variant of Add::Execute without the call of __add__.
ExecAddOfScalars(node, cl, g) ==
    LET Sum(o, lhs_oh, rhs_oh) ==
            IF IsType(lhs_oh, "Number") /\ IsType(rhs_oh, "Number")
            THEN NumberResult(IntAdd(lhs_oh.v, rhs_oh.v), o.cl, o.g)
            ELSE IF IsType(lhs_oh, "String") /\ IsType(rhs_oh, "String")
            THEN Ok(StringV(lhs_oh.v \o rhs_oh.v), o.cl, o.g)
            ELSE RuntimeError(o.cl, o.g)
        OnOperands(o) == IF ~IsOk(o) THEN o ELSE Sum(o, o.val[1], o.val[2])
    IN  OnOperands(ExecOperands(node, cl, g))

\* ObjectHolder Add::Execute(closure, context)
ExecAdd(node, cl, g) ==
    LET Returned1(o, r) == Thrown(r.sig, r.val, o.cl, r.g)
        Sum(o, lhs_oh, rhs_oh) ==
            IF IsType(lhs_oh, "Number") /\ IsType(rhs_oh, "Number")
            THEN NumberResult(IntAdd(lhs_oh.v, rhs_oh.v), o.cl, o.g)
            ELSE IF IsType(lhs_oh, "String") /\ IsType(rhs_oh, "String")
            THEN Ok(StringV(lhs_oh.v \o rhs_oh.v), o.cl, o.g)
            ELSE IF IsType(lhs_oh, "Instance")
                    /\ HasMethod(o.g.ct, o.g.heap, lhs_oh.v, ADD_METHOD, 1)
            THEN Returned1(o, InstanceCall(lhs_oh.v, ADD_METHOD, <<rhs_oh>>, o.g))
            ELSE RuntimeError(o.cl, o.g)
        OnOperands(o) == IF ~IsOk(o) THEN o ELSE Sum(o, o.val[1], o.val[2])
    IN  OnOperands(ExecOperands(node, cl, g))

\* int / int of C++ for a divisor b # 0: the quotient is truncated towards
\* zero; INT_MIN / -1 is outside the ints
TruncDiv(a, b) ==
    LET Towards0(n, d) == IF n < 0 /\ n % d # 0 THEN (n \div d) + 1 ELSE n \div d
    IN  IF b = INT_MIN THEN (IF a = INT_MIN THEN 1 ELSE 0)
        ELSE IF b > 0 THEN Towards0(a, b)
        ELSE IF a = INT_MIN /\ b = -1 THEN INT_MIN
        ELSE -Towards0(a, -b)

\* int / int
IntDiv(a, b) == IntResult(TruncDiv(a, b), a = INT_MIN /\ b = -1)

\* A variant of Sub::Execute / Mult::Execute / Div::Execute whose Div does
\* not look at the divisor.
ExecArithmeticUnchecked(node, cl, g) ==
    LET Result(o, lhs_oh, rhs_oh) ==
            IF IsType(lhs_oh, "Number") /\ IsType(rhs_oh, "Number")
            THEN CASE node.k = "Sub" -> NumberResult(IntSub(lhs_oh.v, rhs_oh.v), o.cl, o.g)
                   [] node.k = "Mult" -> NumberResult(IntMult(lhs_oh.v, rhs_oh.v), o.cl, o.g)
                   [] node.k = "Div" ->
                        IF rhs_oh.v # 0
                        THEN NumberResult(IntDiv(lhs_oh.v, rhs_oh.v), o.cl, o.g)
                        ELSE Thrown("terminated", NoneV, o.cl, o.g)
            ELSE RuntimeError(o.cl, o.g)
        OnOperands(o) == IF ~IsOk(o) THEN o ELSE Result(o, o.val[1], o.val[2])
    IN  OnOperands(ExecOperands(node, cl, g))

\* ObjectHolder Sub::Execute / Mult::Execute / Div::Execute (closure, context)
ExecArithmetic(node, cl, g) ==
    LET Result(o, lhs_oh, rhs_oh) ==
            IF IsType(lhs_oh, "Number") /\ IsType(rhs_oh, "Number")
            THEN CASE node.k = "Sub" -> NumberResult(IntSub(lhs_oh.v, rhs_oh.v), o.cl, o.g)
                   [] node.k = "Mult" -> NumberResult(IntMult(lhs_oh.v, rhs_oh.v), o.cl, o.g)
                   [] node.k = "Div" ->
                        IF rhs_oh.v # 0
                        THEN NumberResult(IntDiv(lhs_oh.v, rhs_oh.v), o.cl, o.g)
                        ELSE RuntimeError(o.cl, o.g)
            ELSE RuntimeError(o.cl, o.g)
        OnOperands(o) == IF ~IsOk(o) THEN o ELSE Result(o, o.val[1], o.val[2])
    IN  OnOperands(ExecOperands(node, cl, g))

RECURSIVE ExecOperations(_, _, _, _)
\* for (auto& op : operations_) op->Execute(closure, context);
ExecOperations(operations, i, cl, g) ==
    LET Following(r) == IF ~IsOk(r) THEN r
                        ELSE ExecOperations(operations, i + 1, r.cl, r.g)
    IN  IF i > Len(operations) THEN Ok(NoneV, cl, g)
        ELSE Following(Exec(operations[i], cl, g))

\* ObjectHolder Compound::Execute(closure, context)
ExecCompound(node, cl, g) == ExecOperations(node.operations, 1, cl, g)

\* A variant of Or::Execute that returns the operand that decides, as the
\* `or` of Python does.
ExecOrOfOperands(node, cl, g) ==
    LET Left(lhs_oh) ==
            IF ~IsOk(lhs_oh) THEN lhs_oh
            ELSE IF ~IsTrue(lhs_oh.val)
            THEN Exec(node.rhs, lhs_oh.cl, lhs_oh.g)
            ELSE lhs_oh
    IN  Left(Exec(node.lhs, cl, g))

\* ObjectHolder Or::Execute(closure, context)
ExecOr(node, cl, g) ==
    LET Right(rhs_oh) ==
            IF ~IsOk(rhs_oh) THEN rhs_oh
            ELSE IF ~IsTrue(rhs_oh.val) THEN Ok(BoolV(FALSE), rhs_oh.cl, rhs_oh.g)
            ELSE Ok(BoolV(TRUE), rhs_oh.cl, rhs_oh.g)
        Left(lhs_oh) ==
            IF ~IsOk(lhs_oh) THEN lhs_oh
            ELSE IF ~IsTrue(lhs_oh.val)
            THEN Right(Exec(node.rhs, lhs_oh.cl, lhs_oh.g))
            ELSE Ok(BoolV(TRUE), lhs_oh.cl, lhs_oh.g)
    IN  Left(Exec(node.lhs, cl, g))

\* A variant of And::Execute that evaluates both operands before it looks at
\* them.
ExecAndOfBoth(node, cl, g) ==
    LET Both(lhs_oh, rhs_oh) ==
            IF ~IsOk(rhs_oh) THEN rhs_oh
            ELSE Ok(BoolV(IsTrue(lhs_oh.val) /\ IsTrue(rhs_oh.val)), rhs_oh.cl, rhs_oh.g)
        Left(lhs_oh) ==
            IF ~IsOk(lhs_oh) THEN lhs_oh
            ELSE Both(lhs_oh, Exec(node.rhs, lhs_oh.cl, lhs_oh.g))
    IN  Left(Exec(node.lhs, cl, g))

\* ObjectHolder And::Execute(closure, context)
ExecAnd(node, cl, g) ==
    LET Right(rhs_oh) ==
            IF ~IsOk(rhs_oh) THEN rhs_oh
            ELSE IF IsTrue(rhs_oh.val) THEN Ok(BoolV(TRUE), rhs_oh.cl, rhs_oh.g)
            ELSE Ok(BoolV(FALSE), rhs_oh.cl, rhs_oh.g)
        Left(lhs_oh) ==
            IF ~IsOk(lhs_oh) THEN lhs_oh
            ELSE IF IsTrue(lhs_oh.val)
            THEN Right(Exec(node.rhs, lhs_oh.cl, lhs_oh.g))
            ELSE Ok(BoolV(FALSE), lhs_oh.cl, lhs_oh.g)
    IN  Left(Exec(node.lhs, cl, g))

\* ObjectHolder Not::Execute(closure, context)
ExecNot(node, cl, g) ==
    LET Inverted(oh) == IF ~IsOk(oh) THEN oh
                        ELSE Ok(BoolV(~IsTrue(oh.val)), oh.cl, oh.g)
    IN  Inverted(Exec(node.arg, cl, g))

\* ObjectHolder Comparison::Execute(closure, context)
ExecComparison(node, cl, g) ==
    LET Owned(o, c) == IF ~IsOk(c) THEN Thrown(c.sig, c.val, o.cl, c.g)
                       ELSE Ok(BoolV(c.val), o.cl, c.g)
        OnOperands(o) ==
            IF ~IsOk(o) THEN o
            ELSE Owned(o, ApplyComparator(node.cmp, o.val[1], o.val[2], o.g))
    IN  OnOperands(ExecOperands(node, cl, g))

\* A variant of Return::Execute that yields the value and throws nothing.
ExecReturnOfValue(node, cl, g) == Exec(node.statement, cl, g)

\* ObjectHolder Return::Execute(closure, context)
ExecReturn(node, cl, g) ==
    LET ThrowReturn(oh) ==
            IF ~IsOk(oh) THEN oh
            ELSE Thrown("ReturnException", oh.val, oh.cl,
                        Log(oh.g, Event("throw", "ReturnException", oh.val)))
    IN  ThrowReturn(Exec(node.statement, cl, g))

\* A variant of MethodBody::Execute without the catch clause.
ExecMethodBodyNoCatch(node, cl, g) ==
    LET Leave(r) ==
            IF ~IsOk(r) THEN r
            ELSE Ok(NoneV, r.cl, Log(r.g, Event("end", "MethodBody", NoneV)))
    IN  Leave(Exec(node.body, cl, g))

\* ObjectHolder MethodBody::Execute(closure, context)
ExecMethodBody(node, cl, g) ==
    LET Leave(r) ==
            IF r.sig = "ReturnException"
            THEN Ok(r.val, r.cl, Log(r.g, Event("catch", "ReturnException", r.val)))
            ELSE IF ~IsOk(r) THEN r
            ELSE Ok(NoneV, r.cl, Log(r.g, Event("end", "MethodBody", NoneV)))
    IN  Leave(Exec(node.body, cl, g))

\* ObjectHolder ClassDefinition::Execute(closure, context)
ExecClassDefinition(node, cl, g) ==
    IF ~IsType(node.cls, "Class") THEN Thrown("null_dereference", NoneV, cl, g)
    ELSE Ok(NoneV, Emplace(cl, g.ct[node.cls.v].name, node.cls), g)

\* ObjectHolder IfElse::Execute(closure, context)
ExecIfElse(node, cl, g) ==
    LET Branch(oh_condition) ==
            IF ~IsOk(oh_condition) THEN oh_condition
            ELSE IF IsTrue(oh_condition.val) \/ node.else_body # <<>>
            THEN Exec(IF IsTrue(oh_condition.val) THEN node.if_body ELSE node.else_body,
                      oh_condition.cl, oh_condition.g)
            ELSE Ok(NoneV, oh_condition.cl, oh_condition.g)
    IN  Branch(Exec(node.condition, cl, g))

\* The virtual call statement->Execute(closure, context)
Exec(node, cl, g) ==
    LET Dispatch(g1) ==
        CASE node.k \in {"NumericConst", "StringConst", "BoolConst"} -> Ok(node.value, cl, g1)
          [] node.k = "None" -> Ok(NoneV, cl, g1)
          [] node.k = "VariableValue" -> ExecVariableValue(node, cl, g1)
          [] node.k = "Assignment" -> ExecAssignment(node, cl, g1)
          [] node.k = "FieldAssignment" -> ExecFieldAssignment(node, cl, g1)
          [] node.k = "NewInstance" -> ExecNewInstance(node, cl, g1)
          [] node.k = "Print" -> ExecPrint(node, cl, g1)
          [] node.k = "MethodCall" -> ExecMethodCall(node, cl, g1)
          [] node.k = "Stringify" -> ExecStringify(node, cl, g1)
          [] node.k = "Add" -> ExecAdd(node, cl, g1)
          [] node.k \in {"Sub", "Mult", "Div"} -> ExecArithmetic(node, cl, g1)
          [] node.k = "Compound" -> ExecCompound(node, cl, g1)
          [] node.k = "Or" -> ExecOr(node, cl, g1)
          [] node.k = "And" -> ExecAnd(node, cl, g1)
          [] node.k = "Not" -> ExecNot(node, cl, g1)
          [] node.k = "Comparison" -> ExecComparison(node, cl, g1)
          [] node.k = "Return" -> ExecReturn(node, cl, g1)
          [] node.k = "MethodBody" -> ExecMethodBody(node, cl, g1)
          [] node.k = "ClassDefinition" -> ExecClassDefinition(node, cl, g1)
          [] node.k = "IfElse" -> ExecIfElse(node, cl, g1)
    IN  Dispatch(Log(g, Event("Execute", node.k, node.lbl)))

\* ObjectHolder ClassInstance::Call(const Method* method, actual_args, context);
\* the result's cl is the local closure when the body is left
InstanceCallMethod(inst, method, actual_args, g) ==
    LET Enter(m, local_closure) ==
            Exec(m.body, local_closure,
                 Log(g, Event("Call", m.name,
                              [self |-> inst, formal_params |-> m.formal_params,
                               actual_args |-> actual_args,
                               local_closure |-> local_closure])))
        Entered(m, made) ==
            IF made.sig = "ok" THEN Enter(m, made.closure)
            ELSE Thrown(made.sig, NoneV, EmptyClosure, g)
        WithClosure(m) ==
            Entered(m, CreateLocalClosure(inst, m.formal_params, actual_args, g.NDEBUG))
    IN  WithClosure(Deref(g.ct, method))

\* ObjectHolder ClassInstance::Call(const std::string& method, actual_args, context),
\* with ClassInstance::GetMethod, which throws when the method is not resolved
InstanceCall(inst, method, actual_args, g) ==
    LET CallResolved(ptr_method) ==
            IF IsNullMethod(ptr_method) THEN RuntimeError(EmptyClosure, g)
            ELSE InstanceCallMethod(inst, ptr_method, actual_args, g)
    IN  CallResolved(TryMethod(g.ct, g.heap, inst, method, Len(actual_args)))


(***************************************************************************)
(* Method resolution on class chains: ClassInstance::TryMethod, HasMethod  *)
(* and GetMethod applied to an instance of the last class of a chain.      *)
(***************************************************************************)

\* A chain has at most MaxChain classes; a method is asked for with at most
\* MaxArity arguments.
MaxChain == 2
MaxArity == 2

ChainNames == <<"A", "B", "C", "D", "E">>

\* The methods a class of a chain may define: two different methods f of
\* one parameter, a method f of two, and for each list every order.
\* Every method body records in a field that it was executed.
ChainBody ==
    MethodBody(FieldAssignment(VariableValue(<<SELF>>), "called", BoolConst(TRUE)))

ChainMethods ==
    {Method("f", <<"a">>, ChainBody), Method("f", <<"x">>, ChainBody),
     Method("f", <<"a", "b">>, ChainBody)}

RECURSIVE Arrangements(_)
\* every sequence without repetition of elements of S
Arrangements(S) ==
    {<<>>} \cup UNION {{<<m>> \o rest : rest \in Arrangements(S \ {m})} : m \in S}

MethodLists == Arrangements(ChainMethods)

\* The chains of depth classes: ChainNames[1] has no parent, every other
\* class has the one before it as parent_.
Chains(depth) ==
    {[n \in {ChainNames[i] : i \in 1..depth} |->
        LET i == CHOOSE j \in 1..depth : ChainNames[j] = n
        IN  Class(n, ml[i], IF i = 1 THEN NoParent ELSE ChainNames[i - 1])]
     : ml \in [1..depth -> MethodLists]}

NoCall == [op |-> "none"]
NoRet == [op |-> "none", sig |-> "none", val |-> NoneV]
Returned(op, val) == [op |-> op, sig |-> "ok", val |-> val]
Threw(op, sig) == [op |-> op, sig |-> sig, val |-> NoneV]

LexerIdle ==
    /\ token_creator = CreatorInit(<<>>)
    /\ tokens = <<>>
    /\ split_pc = "idle"
    /\ current_index_ = 0

ResolveInit ==
    /\ LexerIdle
    /\ \E depth \in 1..MaxChain :
         /\ classes \in Chains(depth)
         /\ heap = [obj \in {"obj"} |-> ClassInstance(ChainNames[depth])]
    /\ closure = EmptyClosure
    /\ output = <<>>
    /\ exec_log = <<>>
    /\ \E method \in {"f", "g"}, argument_count \in 0..MaxArity :
         call = [op |-> "resolve", inst |-> "obj", method |-> method,
                 argument_count |-> argument_count]
    /\ ret = NoRet

\* const Method* ClassInstance::TryMethod(method, argument_count) const
ApplyTryMethod ==
    /\ call.op = "resolve" /\ ret.op = "none"
    /\ ret' = Returned("TryMethod",
                       TryMethod(classes, heap, call.inst, call.method, call.argument_count))
    /\ UNCHANGED <<lexer_vars, classes, heap, closure, output, call, exec_log>>

\* bool ClassInstance::HasMethod(method, argument_count) const
ApplyHasMethod ==
    /\ call.op = "resolve" /\ ret.op = "none"
    /\ ret' = Returned("HasMethod",
                       HasMethod(classes, heap, call.inst, call.method, call.argument_count))
    /\ UNCHANGED <<lexer_vars, classes, heap, closure, output, call, exec_log>>

\* const Method* ClassInstance::GetMethod(method, argument_count) const
ApplyGetMethod ==
    /\ call.op = "resolve" /\ ret.op = "none"
    /\ LET ptr_method == TryMethod(classes, heap, call.inst, call.method, call.argument_count)
       IN  ret' = IF ~IsNullMethod(ptr_method) THEN Returned("GetMethod", ptr_method)
                  ELSE Threw("GetMethod", "runtime_error")
    /\ UNCHANGED <<lexer_vars, classes, heap, closure, output, call, exec_log>>

\* ObjectHolder ClassInstance::Call(method, actual_args, context), the i-th
\* argument being the number i
ApplyCall ==
    /\ call.op = "resolve" /\ ret.op = "none"
    /\ LET Finish(r) ==
               /\ ret' = [op |-> "Call", sig |-> r.sig, val |-> r.val]
               /\ heap' = r.g.heap
               /\ output' = output \o r.g.out
               /\ exec_log' = r.g.log
       IN  Finish(InstanceCall(call.inst, call.method,
                               [i \in 1..call.argument_count |-> NumberV(i)],
                               Context(classes, heap)))
    /\ UNCHANGED <<lexer_vars, classes, closure, call>>

\* ObjectHolder ClassInstance::Call(const Method* method, actual_args, context)
\* with a method of the instance's class chain, whatever the number of its
\* parameters, the i-th argument being the number i
ApplyCallMethod ==
    /\ call.op = "resolve" /\ ret.op = "none"
    /\ \E NDEBUG \in BOOLEAN, cls \in DOMAIN classes :
         \E idx \in 1..Len(classes[cls].methods) :
            LET Finish(r) ==
                    /\ ret' = [op |-> "CallMethod", sig |-> r.sig, val |-> r.val,
                               method |-> MethodAt(cls, idx), NDEBUG |-> NDEBUG]
                    /\ heap' = r.g.heap
                    /\ output' = output \o r.g.out
                    /\ exec_log' = r.g.log
            IN  Finish(InstanceCallMethod(call.inst, MethodAt(cls, idx),
                                          [i \in 1..call.argument_count |-> NumberV(i)],
                                          [Context(classes, heap) EXCEPT !.NDEBUG = NDEBUG]))
    /\ UNCHANGED <<lexer_vars, classes, closure, call>>

ResolveNext ==
    ApplyTryMethod \/ ApplyHasMethod \/ ApplyGetMethod \/ ApplyCall \/ ApplyCallMethod

SpecResolve == ResolveInit /\ [][ResolveNext]_vars

\* The classes of the chain from cls up to the root, nearest first.
RECURSIVE ChainOf(_, _)
ChainOf(ct, cls) ==
    IF ct[cls].parent = NoParent THEN <<cls>> ELSE <<cls>> \o ChainOf(ct, ct[cls].parent)

\* The first method with that name and that number of parameters in chain
\* order, and within a class in list order; NullMethod when there is none.
FirstByNameAndArity(ct, cls, name, n) ==
    LET chain == ChainOf(ct, cls)
        fits(m) == m.name = name /\ Len(m.formal_params) = n
        hits == UNION {{<<i, j>> : j \in {k \in 1..Len(ct[chain[i]].methods) :
                                             fits(ct[chain[i]].methods[k])}}
                       : i \in 1..Len(chain)}
        before(p, q) == p[1] < q[1] \/ (p[1] = q[1] /\ p[2] <= q[2])
    IN  IF hits = {} THEN NullMethod
        ELSE LET p == CHOOSE q \in hits : \A o \in hits : before(q, o)
             IN  MethodAt(chain[p[1]], p[2])

\* C5: resolving (name, n) on an instance yields the first method of the
\* class chain that has that name and exactly n formal parameters, and
\* fails only when the chain has no such method.
C5_ResolvesByNameAndArity ==
    ret.op = "TryMethod" =>
        LET expected == FirstByNameAndArity(classes, heap[call.inst].cls,
                                            call.method, call.argument_count)
        IN  ret.val.cls = expected.cls /\ ret.val.idx = expected.idx

\* C16: Call(name, args) on an instance whose class chain has no method
\* name with exactly |args| formal parameters throws runtime_error, executes
\* nothing and leaves every field as it was; and HasMethod(name, n) is true
\* exactly when Call(name, args) with n arguments resolves a method.
C16_UnknownMethodCallThrows ==
    ret.op = "Call" =>
        /\ IsNullMethod(FirstByNameAndArity(classes, heap[call.inst].cls,
                                            call.method, call.argument_count)) =>
              /\ ret.sig = "runtime_error"
              /\ exec_log = <<>>
              /\ \A i \in DOMAIN heap : heap[i].fields = EmptyClosure
        /\ HasMethod(classes, heap, call.inst, call.method, call.argument_count)
              <=> (\E i \in DOMAIN exec_log : exec_log[i].e = "Call")

\* Call("f", {1}) on an instance whose class chain defines f with two
\* parameters only has thrown.
C16_Witness ==
    /\ ret.op = "Call" /\ ret.sig = "runtime_error"
    /\ call.method = "f" /\ call.argument_count = 1
    /\ ~IsNullMethod(FirstByNameAndArity(classes, heap[call.inst].cls, "f", 2))
    /\ IsNullMethod(FirstByNameAndArity(classes, heap[call.inst].cls, "f", 1))
    /\ exec_log = <<>>


(***************************************************************************)
(* IsTrue and the six comparison functions applied to pairs of objects.    *)
(***************************************************************************)

\* Numbers are taken from -MaxNum..MaxNum.
MaxNum == 1

\* What a class does about __eq__ or __lt__: it has no such method, it has
\* one that takes no parameter, or it has one of one parameter that returns
\* True, False, 1, 0, or ends without a Return.
Behaviours == {"absent", "no_params", "True", "False", "One", "Zero", "NoReturn"}

DunderBody(b) ==
    CASE b = "True" -> MethodBody(Return(BoolConst(TRUE)))
      [] b = "False" -> MethodBody(Return(BoolConst(FALSE)))
      [] b = "One" -> MethodBody(Return(NumericConst(1)))
      [] b = "Zero" -> MethodBody(Return(NumericConst(0)))
      [] OTHER -> MethodBody(Compound(<<>>))

DunderMethods(name, b) ==
    CASE b = "absent" -> <<>>
      [] b = "no_params" -> <<Method(name, <<>>, DunderBody("True"))>>
      [] OTHER -> <<Method(name, <<"other">>, DunderBody(b))>>

CmpClassName(eq, lt) == "eq_" \o eq \o "_lt_" \o lt
CmpClassNames == {CmpClassName(eq, lt) : eq \in Behaviours, lt \in Behaviours}

\* One class for every pair of behaviours.
CmpClasses ==
    [n \in CmpClassNames |->
        LET b == CHOOSE p \in Behaviours \X Behaviours : CmpClassName(p[1], p[2]) = n
        IN  Class(n, DunderMethods(EQ, b[1]) \o DunderMethods(LT, b[2]), NoParent)]

\* One instance of every class, known by the name of its class.
CmpHeap == [n \in CmpClassNames |-> ClassInstance(n)]

Scalars ==
    {NumberV(n) : n \in (-MaxNum)..MaxNum}
    \cup {StringV(str) : str \in {<<>>, <<"a">>, <<"b">>, <<"a", "b">>}}
    \cup {BoolV(b) : b \in BOOLEAN}

LeftOperands ==
    {NoneV} \cup Scalars \cup {ClassV(CmpClassName("True", "True"))}
    \cup {InstanceV(n) : n \in CmpClassNames}

RightOperands ==
    {NoneV} \cup Scalars \cup {ClassV(CmpClassName("True", "True"))}
    \cup {InstanceV(CmpClassName("absent", "absent")), InstanceV(CmpClassName("True", "False"))}

CompareInit ==
    /\ LexerIdle
    /\ classes = CmpClasses
    /\ heap = CmpHeap
    /\ closure = EmptyClosure
    /\ output = <<>>
    /\ exec_log = <<>>
    /\ \E lhs \in LeftOperands, rhs \in RightOperands :
         call = [op |-> "compare", lhs |-> lhs, rhs |-> rhs]
    /\ ret = NoRet

\* The result of a comparison function as the caller sees it.
CmpRet(op, r) == IF IsOk(r) THEN Returned(op, r.val) ELSE Threw(op, r.sig)

\* comparator(lhs, rhs, context), for each of the six comparison functions
ApplyCmp(op) ==
    /\ call.op = "compare" /\ ret.op = "none"
    /\ LET Finish(r) == /\ ret' = CmpRet(op, r)
                        /\ heap' = r.g.heap
                        /\ output' = output \o r.g.out
                        /\ exec_log' = r.g.log
       IN  Finish(ApplyComparator(op, call.lhs, call.rhs, Context(classes, heap)))
    /\ UNCHANGED <<lexer_vars, classes, closure, call>>

ApplyEqual == ApplyCmp("Equal")
ApplyNotEqual == ApplyCmp("NotEqual")
ApplyLess == ApplyCmp("Less")
ApplyGreater == ApplyCmp("Greater")
ApplyLessOrEqual == ApplyCmp("LessOrEqual")
ApplyGreaterOrEqual == ApplyCmp("GreaterOrEqual")

\* IsTrue(lhs)
ApplyIsTrue ==
    /\ call.op = "compare" /\ ret.op = "none"
    /\ ret' = Returned("IsTrue", IsTrue(call.lhs))
    /\ UNCHANGED <<lexer_vars, classes, heap, closure, output, call, exec_log>>

CompareNext ==
    \/ ApplyEqual \/ ApplyNotEqual \/ ApplyLess \/ ApplyGreater
    \/ ApplyLessOrEqual \/ ApplyGreaterOrEqual \/ ApplyIsTrue

SpecCompare == CompareInit /\ [][CompareNext]_vars

CmpOps == {"Equal", "NotEqual", "Less", "Greater", "LessOrEqual", "GreaterOrEqual"}
IsScalar(oh) == oh.t \in {"Number", "String", "Bool"}

\* oh is an instance whose class resolves the method name with one parameter.
ResolvesDunder(oh, name) ==
    IsType(oh, "Instance") /\ HasMethod(classes, heap, oh.v, name, 1)

\* The operand pairs on which every comparison function must fail.
NotComparable(lhs, rhs) ==
    \/ ~Holds(lhs) /\ IsScalar(rhs)
    \/ IsScalar(lhs) /\ ~Holds(rhs)
    \/ IsScalar(lhs) /\ IsScalar(rhs) /\ lhs.t # rhs.t
    \/ IsType(lhs, "Instance") /\ ~ResolvesDunder(lhs, EQ) /\ ~ResolvesDunder(lhs, LT)

\* C7: on (None, None) Equal returns true, NotEqual returns false and the
\* four ordering functions throw runtime_error; all six functions throw
\* runtime_error on None against a scalar, on scalars of different kinds,
\* and on a left instance whose class resolves neither __eq__ nor __lt__.
C7_NoneAndMixedOperands ==
    ret.op \in CmpOps =>
        /\ (~Holds(call.lhs) /\ ~Holds(call.rhs)) =>
              CASE ret.op = "Equal" -> ret.sig = "ok" /\ ret.val = TRUE
                [] ret.op = "NotEqual" -> ret.sig = "ok" /\ ret.val = FALSE
                [] OTHER -> ret.sig = "runtime_error"
        /\ NotComparable(call.lhs, call.rhs) => ret.sig = "runtime_error"

\* GreaterOrEqual was applied to an instance with neither __eq__ nor __lt__
\* and threw.
C7_Witness ==
    /\ ret.op = "GreaterOrEqual"
    /\ IsType(call.lhs, "Instance")
    /\ ~ResolvesDunder(call.lhs, EQ) /\ ~ResolvesDunder(call.lhs, LT)
    /\ ret.sig = "runtime_error"

\* What the comparison function op must return when the left operand
\* resolves the method name: IsTrue of what the method returns.
ReturnsDunder(op, name) ==
    (ret.op = op /\ ResolvesDunder(call.lhs, name)) =>
        LET r == InstanceCall(call.lhs.v, name, <<call.rhs>>, Context(classes, heap))
        IN  IsOk(r) => (ret.sig = "ok" /\ ret.val = IsTrue(r.val))

\* C8: with a left instance that resolves __eq__ (__lt__) of one parameter,
\* Equal (Less) returns IsTrue of the method's result for every right
\* operand, None included.
C8_InstanceDunderForEveryRight ==
    /\ ReturnsDunder("Equal", EQ)
    /\ ReturnsDunder("Less", LT)

\* The result of the function op on the operands of the state; the result
\* the state holds when op is the function that was applied.
CmpResult(op) ==
    IF ret.op = op THEN ret
    ELSE CmpRet(op, ApplyComparator(op, call.lhs, call.rhs, Context(classes, heap)))

\* Equal, Less and Greater all return on the operands.
AllThreeReturn ==
    /\ ret.op \in {"Equal", "Less", "Greater", "LessOrEqual"}
    /\ \A op \in {"Equal", "Less", "Greater"} : CmpResult(op).sig = "ok"

ExactlyOne(a, b, c) == (a /\ ~b /\ ~c) \/ (~a /\ b /\ ~c) \/ (~a /\ ~b /\ c)

\* C9 as first stated: whenever Equal, Less and Greater all return, exactly
\* one of them is true, and LessOrEqual is true iff Greater is false.
C9_ExactlyOneOfThree ==
    AllThreeReturn =>
        /\ ExactlyOne(CmpResult("Equal").val, CmpResult("Less").val, CmpResult("Greater").val)
        /\ CmpResult("LessOrEqual").sig = "ok"
        /\ CmpResult("LessOrEqual").val = ~CmpResult("Greater").val

\* C9: whenever Equal, Less and Greater all return, Greater is true iff
\* neither Equal nor Less is, so at least one of the three is true; exactly
\* one is true for scalars of one kind and for a left instance whose __eq__
\* and __lt__ do not both return a truthy object (when both do, Equal and
\* Less are both true); and LessOrEqual is true iff Greater is false.
C9_GreaterIsNeitherEqualNorLess ==
    AllThreeReturn =>
        LET e == CmpResult("Equal").val
            l == CmpResult("Less").val
            gr == CmpResult("Greater").val
        IN  /\ gr = (~e /\ ~l)
            /\ (IsScalar(call.lhs) \/ ~(e /\ l)) => ExactlyOne(e, l, gr)
            /\ CmpResult("LessOrEqual").sig = "ok"
            /\ CmpResult("LessOrEqual").val = ~gr

\* Greater was applied to an instance whose __eq__ and __lt__ both return
\* True: Equal and Less are both true and Greater is false.
C9_Witness ==
    /\ ret.op = "Greater"
    /\ IsType(call.lhs, "Instance")
    /\ AllThreeReturn
    /\ CmpResult("Equal").val /\ CmpResult("Less").val
    /\ ret.val = FALSE

FalsyScalarOrNone(oh) ==
    \/ ~Holds(oh)
    \/ IsType(oh, "Number") /\ oh.v = 0
    \/ IsType(oh, "String") /\ oh.v = <<>>
    \/ IsType(oh, "Bool") /\ ~oh.v

\* C10: IsTrue is false exactly for None, Number 0, Bool
\* False and the empty String, and true for every other object, classes and
\* instances included.
C10_FalseOnlyForNoneAndZeroes ==
    ret.op = "IsTrue" => (ret.val = ~FalsyScalarOrNone(call.lhs))



(***************************************************************************)
(* Programs.  The root Compound of a program is executed one statement at  *)
(* a time against the root closure; an exception that leaves a statement   *)
(* ends the program.                                                       *)
(***************************************************************************)

\* A program executes at most MaxSteps statements.
MaxSteps == 5

Var(name) == VariableValue(<<name>>)
Field(object, field_name) == VariableValue(<<object, field_name>>)
SelfField(field_name) == Field(SELF, field_name)
SetSelf(field_name, rv) == FieldAssignment(Var(SELF), field_name, rv)

\* class Counter:
\*   def __init__():  self.value = 0
\*   def add():       self.value = self.value + 1
CounterClass ==
    Class("Counter",
          <<Method(INIT_METHOD, <<>>, MethodBody(Compound(<<SetSelf("value", NumericConst(0))>>))),
            Method("add", <<>>,
                   MethodBody(Compound(<<SetSelf("value", Add(SelfField("value"), NumericConst(1)))>>)))>>,
          NoParent)

\* class Dummy:
\*   def do_add(counter):  counter.add()
DummyClass ==
    Class("Dummy",
          <<Method("do_add", <<"counter">>,
                   MethodBody(Compound(<<MethodCall(Var("counter"), "add", <<>>)>>)))>>,
          NoParent)

\* class Child(Counter):
\*   def twice():  self.add()  self.add()  return self.value
ChildClass ==
    Class("Child",
          <<Method("twice", <<>>,
                   MethodBody(Compound(<<MethodCall(Var(SELF), "add", <<>>),
                                         MethodCall(Var(SELF), "add", <<>>),
                                         Return(SelfField("value"))>>)))>>,
          "Counter")

\* class Ret:
\*   def early(c):
\*     self.a = 1
\*     if c:
\*       self.b = 2
\*       if c:
\*         return 10
\*       self.b = 98
\*     self.c = 3
\*   def outer(c):
\*     self.r = self.early(c)
\*     self.after = 1
\*     if c:
\*       return self.r + 1
\*     self.d = 4
RetClass ==
    Class("Ret",
          <<Method("early", <<"c">>,
                   MethodBody(Compound(<<
                       SetSelf("a", NumericConst(1)),
                       IfElse(Var("c"),
                              Compound(<<SetSelf("b", NumericConst(2)),
                                         IfElse(Var("c"),
                                                Compound(<<Labelled(Return(NumericConst(10)), "early_return")>>),
                                                <<>>),
                                         Labelled(SetSelf("b", NumericConst(98)), "early_dead")>>),
                              <<>>),
                       Labelled(SetSelf("c", NumericConst(3)), "early_tail")>>))),
            Method("outer", <<"c">>,
                   MethodBody(Compound(<<
                       SetSelf("r", MethodCall(Var(SELF), "early", <<Var("c")>>)),
                       Labelled(SetSelf("after", NumericConst(1)), "outer_next"),
                       IfElse(Var("c"),
                              Labelled(Return(Add(SelfField("r"), NumericConst(1))), "outer_return"),
                              <<>>),
                       Labelled(SetSelf("d", NumericConst(4)), "outer_tail")>>)))>>,
          NoParent)

\* class Shadow:
\*   def pick(self, a, a):  return a
ShadowClass ==
    Class("Shadow",
          <<Method("pick", <<SELF, "a", "a">>, MethodBody(Compound(<<Return(Var("a"))>>)))>>,
          NoParent)

ProgramClasses ==
    [n \in {"Counter", "Dummy", "Child", "Ret", "Shadow"} |->
        CASE n = "Counter" -> CounterClass
          [] n = "Dummy" -> DummyClass
          [] n = "Child" -> ChildClass
          [] n = "Ret" -> RetClass
          [] n = "Shadow" -> ShadowClass]

\* The ClassInstance each NewInstance node of the program owns, by the
\* identity of the instance, with the class it was constructed for.
ProgramInstances ==
    [ci \in {"counter", "counter2", "dummy", "child", "ret", "shadow"} |->
        CASE ci = "counter" -> ClassInstance("Counter")
          [] ci = "counter2" -> ClassInstance("Counter")
          [] ci = "dummy" -> ClassInstance("Dummy")
          [] ci = "child" -> ClassInstance("Child")
          [] ci = "ret" -> ClassInstance("Ret")
          [] ci = "shadow" -> ClassInstance("Shadow")]

Statement(name, node) == [name |-> name, node |-> node]

\* The statements a program is made of.
ProgramStatements ==
    {Statement("x = Counter()", Assignment("x", NewInstance("counter", <<>>))),
     Statement("x = Counter() #2", Assignment("x", NewInstance("counter2", <<>>))),
     Statement("y = x", Assignment("y", Var("x"))),
     Statement("y = 0", Assignment("y", NumericConst(0))),
     Statement("x.add()", MethodCall(Var("x"), "add", <<>>)),
     Statement("y.add()", MethodCall(Var("y"), "add", <<>>)),
     Statement("x.value = 5", FieldAssignment(Var("x"), "value", NumericConst(5))),
     Statement("y.value = 7", FieldAssignment(Var("y"), "value", NumericConst(7))),
     Statement("print x.value", PrintStmt(<<Field("x", "value")>>)),
     Statement("print y.value", PrintStmt(<<Field("y", "value")>>)),
     Statement("d = Dummy()", Assignment("d", NewInstance("dummy", <<>>))),
     Statement("d.do_add(x)", MethodCall(Var("d"), "do_add", <<Var("x")>>)),
     Statement("d.do_add(y)", MethodCall(Var("d"), "do_add", <<Var("y")>>)),
     Statement("z = Child()", Assignment("z", NewInstance("child", <<>>))),
     Statement("z.twice()", MethodCall(Var("z"), "twice", <<>>)),
     Statement("r = Ret()", Assignment("r", NewInstance("ret", <<>>))),
     Statement("r.early(True)", MethodCall(Var("r"), "early", <<BoolConst(TRUE)>>)),
     Statement("r.early(False)", MethodCall(Var("r"), "early", <<BoolConst(FALSE)>>)),
     Statement("r.outer(True)", MethodCall(Var("r"), "outer", <<BoolConst(TRUE)>>)),
     Statement("r.outer(False)", MethodCall(Var("r"), "outer", <<BoolConst(FALSE)>>)),
     Statement("s = Shadow()", Assignment("s", NewInstance("shadow", <<>>))),
     Statement("s.pick(1, 2, 3)",
               MethodCall(Var("s"), "pick", <<NumericConst(1), NumericConst(2), NumericConst(3)>>))}

StatementNamed(name) == CHOOSE st \in ProgramStatements : st.name = name

ExecInit ==
    /\ LexerIdle
    /\ classes = ProgramClasses
    /\ heap = ProgramInstances
    /\ closure = EmptyClosure
    /\ output = <<>>
    /\ exec_log = <<>>
    /\ call = [op |-> "execute", stmt |-> "", n |-> 0, aliases |-> {}]
    /\ ret = NoRet

\* The pairs of names that an Assignment name = other_name made names of one
\* instance and that no Assignment has rebound since.
AliasesAfter(aliases, node, r) ==
    IF node.k = "Assignment" /\ IsOk(r)
    THEN LET kept == {p \in aliases : node.var \notin p}
         IN  IF node.rv.k = "VariableValue" /\ Len(node.rv.dotted_ids) = 1
                /\ node.rv.dotted_ids[1] # node.var /\ IsType(r.val, "Instance")
             THEN kept \cup {{node.var, node.rv.dotted_ids[1]}}
             ELSE kept
    ELSE aliases

\* One pass of the loop of the root Compound: the next statement, a node
\* of class kind, is executed against the root closure.
ExecuteStatement(kind) ==
    /\ call.op = "execute"
    /\ ret.sig \in {"none", "ok"}
    /\ call.n < MaxSteps
    /\ \E st \in {s \in ProgramStatements : s.node.k = kind} :
         LET Finish(r) ==
                 /\ closure' = r.cl
                 /\ heap' = r.g.heap
                 /\ output' = output \o r.g.out
                 /\ exec_log' = r.g.log
                 /\ ret' = [op |-> "Execute", sig |-> r.sig, val |-> r.val]
                 /\ call' = [op |-> "execute", stmt |-> st.name, n |-> call.n + 1,
                             aliases |-> AliasesAfter(call.aliases, st.node, r)]
         IN  Finish(Exec(st.node, closure, Context(classes, heap)))
    /\ UNCHANGED <<lexer_vars, classes>>

ExecuteAssignment == ExecuteStatement("Assignment")
ExecuteFieldAssignment == ExecuteStatement("FieldAssignment")
ExecuteMethodCall == ExecuteStatement("MethodCall")
ExecutePrint == ExecuteStatement("Print")

ExecNext ==
    \/ ExecuteAssignment \/ ExecuteFieldAssignment
    \/ ExecuteMethodCall \/ ExecutePrint

SpecExec == ExecInit /\ [][ExecNext]_vars

(***************************************************************************)
(* Properties of executed programs.                                        *)
(***************************************************************************)

\* The positions of the log where an event of kind e is recorded.
EventsAt(e) == {i \in 1..Len(exec_log) : exec_log[i].e = e}

\* The last statement executed was a MethodCall that ran a method.
RanMethodCall ==
    /\ ret.op = "Execute"
    /\ StatementNamed(call.stmt).node.k = "MethodCall"
    /\ EventsAt("Call") # {}

\* C3: a Return executed inside a MethodBody, however deeply nested in
\* Compound and IfElse, is caught by the innermost MethodBody before
\* anything else is executed; that MethodBody yields the returned value (None
\* when its body ends without a Return); one Return ends one MethodBody
\* only, so that the calling method goes on, and no ReturnException leaves
\* a method call.
C3_ReturnEndsInnermostBody ==
    ret.op = "Execute" =>
        /\ \A i \in EventsAt("throw") :
              /\ i < Len(exec_log)
              /\ exec_log[i + 1].e = "catch"
        /\ \A i \in EventsAt("catch") :
              /\ i > 1
              /\ exec_log[i - 1].e = "throw"
        /\ ret.sig # "ReturnException"
        /\ (RanMethodCall /\ ret.sig = "ok") =>
              LET last == exec_log[Len(exec_log)]
              IN  /\ last.e \in {"catch", "end"}
                  /\ last.e = "catch" => SameObject(ret.val, exec_log[Len(exec_log) - 1].x)
                  /\ last.e = "end" => ~Holds(ret.val)

\* outer(True) ran: the Return of the nested early(True) was caught by
\* early's body, outer went on with its next statement and returned 11, and
\* no statement that follows a Return in its body was executed.
C3_Witness ==
    /\ call.stmt = "r.outer(True)"
    /\ ret.sig = "ok"
    /\ IsType(ret.val, "Number") /\ ret.val.v = 11
    /\ Cardinality(EventsAt("throw")) = 2
    /\ \E i \in EventsAt("catch"), j \in EventsAt("Execute") :
          i < j /\ exec_log[j].x = "outer_next"
    /\ \A j \in EventsAt("Execute") :
          exec_log[j].x \notin {"early_dead", "early_tail", "outer_tail"}

\* VariableValue name.field_name read in the root closure
ReadField(name, field_name) ==
    ExecVariableValue(Field(name, field_name), closure, Context(classes, heap))

SameResult(a, b) == a.sig = b.sig /\ (IsOk(a) => SameObject(a.val, b.val))

FieldNames == UNION {DOMAIN heap[i].fields : i \in DOMAIN heap}

\* C4: while two names made aliases by an Assignment y = x of an instance
\* are not rebound, every field reads the same through both, whoever wrote
\* it; and the value a FieldAssignment writes through one name is the value
\* read through the other.
C4_AliasesShareFields ==
    \A p \in call.aliases : \A a \in p, b \in p :
        /\ \A f \in FieldNames : SameResult(ReadField(a, f), ReadField(b, f))
        /\ LET node == StatementNamed(call.stmt).node
           IN  (node.k = "FieldAssignment" /\ node.object.dotted_ids = <<a>> /\ ret.sig = "ok")
                  => LET r == ReadField(b, node.field_name)
                     IN  IsOk(r) /\ SameObject(r.val, ret.val)

\* x and y are aliases, a method of another object that was given y has
\* just added one, and the sum is read through x.
C4_Witness ==
    /\ {"x", "y"} \in call.aliases
    /\ call.stmt = "d.do_add(y)"
    /\ ret.sig = "ok"
    /\ LET r == ReadField("x", "value")
       IN  IsOk(r) /\ IsType(r.val, "Number") /\ r.val.v >= 1

\* The bindings a call of a method must run with: self and the formal
\* parameters, each bound to the argument at its own position.
BoundPositionally(c) ==
    /\ Len(c.actual_args) = Len(c.formal_params)
    /\ DOMAIN c.local_closure = {SELF} \cup {c.formal_params[j] : j \in 1..Len(c.formal_params)}
    /\ SameObject(c.local_closure[SELF], InstanceV(c.self))
    /\ \A j \in 1..Len(c.formal_params) :
          SameObject(c.local_closure[c.formal_params[j]], c.actual_args[j])

\* C6: every call of a method runs the body with a fresh closure that binds
\* exactly self, to the receiver, and every formal parameter to the argument
\* at the same position, and a MethodCall leaves the caller's closure as it
\* was.
C6_CallFrame ==
    /\ [](\A i \in EventsAt("Call") : BoundPositionally(exec_log[i].x))
    /\ [][StatementNamed(call'.stmt).node.k = "MethodCall" => closure' = closure]_vars


(***************************************************************************)
(* Single statements executed against a prepared symbol table: one call of *)
(* statement->Execute(closure, context), whose arguments the variable call *)
(* keeps.                                                                  *)
(***************************************************************************)

\* class Adder:
\*   def __add__(other):  return other
\*   def bump():          self.hits = 1
AdderClass ==
    Class("Adder",
          <<Method(ADD_METHOD, <<"other">>, MethodBody(Return(Var("other")))),
            Method("bump", <<>>, MethodBody(SetSelf("hits", NumericConst(1))))>>,
          NoParent)

\* class Plain:
\*   def one(a):        return a
\*   def second(a, b):  return b
\*   def __add__(a, b): return b
PlainClass ==
    Class("Plain",
          <<Method("one", <<"a">>, MethodBody(Return(Var("a")))),
            Method("second", <<"a", "b">>, MethodBody(Return(Var("b")))),
            Method(ADD_METHOD, <<"a", "b">>, MethodBody(Return(Var("b"))))>>,
          NoParent)

\* class Point:
\*   def __init__(x):  self.value = x
PointClass ==
    Class("Point",
          <<Method(INIT_METHOD, <<"x">>, MethodBody(SetSelf("value", Var("x"))))>>,
          NoParent)

\* class Pair:
\*   def __init__(a, b):
\*     self.value = a
\*     self.second = b
PairClass ==
    Class("Pair",
          <<Method(INIT_METHOD, <<"a", "b">>,
                   MethodBody(Compound(<<SetSelf("value", Var("a")),
                                         SetSelf("second", Var("b"))>>)))>>,
          NoParent)

\* class Maker:
\*   def make(v):  return Point(v)
\*   def plain():  return Plain()
\*   def pick(v):
\*     if v:
\*       return 1
\*     return 2
\* Each of the two NewInstance nodes owns its instance.
MakerClass ==
    Class("Maker",
          <<Method("make", <<"v">>, MethodBody(Return(NewInstance("made_point", <<Var("v")>>)))),
            Method("plain", <<>>, MethodBody(Return(NewInstance("made_plain", <<>>)))),
            Method("pick", <<"v">>,
                   MethodBody(Compound(<<IfElse(Var("v"), Return(NumericConst(1)), <<>>),
                                         Return(NumericConst(2))>>)))>>,
          NoParent)

\* class Silent:                 class Named:
\*   def __str__():                 def __str__():
\*     self.seen = 1                  return 'hi'
SilentClass ==
    Class("Silent", <<Method(STR_METHOD, <<>>, MethodBody(SetSelf("seen", NumericConst(1))))>>,
          NoParent)
NamedClass ==
    Class("Named", <<Method(STR_METHOD, <<>>, MethodBody(Return(StringConst(<<"h", "i">>))))>>,
          NoParent)

\* The classes of the prepared program, by identity: Plain2 is a second
\* class named Plain, Value a class named like the variable value.
EvalClasses ==
    [c \in {"Adder", "Plain", "Plain2", "Value", "Point", "Pair", "Maker",
            "Silent", "Named"} |->
        CASE c = "Adder" -> AdderClass
          [] c = "Silent" -> SilentClass
          [] c = "Named" -> NamedClass
          [] c = "Plain" -> PlainClass
          [] c = "Point" -> PointClass
          [] c = "Pair" -> PairClass
          [] c = "Maker" -> MakerClass
          [] c = "Plain2" -> Class("Plain", <<>>, NoParent)
          [] c = "Value" -> Class("value", <<>>, NoParent)]

Fields(pairs) == [n \in {p[1] : p \in pairs} |-> (CHOOSE p \in pairs : p[1] = n)[2]]

\* The instances: holder has fields, one of them the instance inner; point,
\* pair, plain, made_point and made_plain are the ci_ of NewInstance nodes.
EvalHeap ==
    [i \in {"holder", "inner", "adder", "maker", "point", "pair", "plain",
            "made_point", "made_plain", "silent", "named"} |->
        CASE i = "maker" -> ClassInstance("Maker")
          [] i = "silent" -> ClassInstance("Silent")
          [] i = "named" -> ClassInstance("Named")
          [] i \in {"point", "made_point"} -> ClassInstance("Point")
          [] i = "pair" -> ClassInstance("Pair")
          [] i \in {"plain", "made_plain"} -> ClassInstance("Plain")
          [] i = "holder" ->
               [cls |-> "Plain",
                fields |-> Fields({<<"value", NumberV(7)>>, <<"inner", InstanceV("inner")>>,
                                   <<"n", NumberV(1)>>})]
          [] i = "inner" -> [cls |-> "Plain", fields |-> Fields({<<"value", NumberV(9)>>})]
          [] i = "adder" -> ClassInstance("Adder")]

\* The symbol table with every kind of value bound.
EvalClosure ==
    Fields({<<"n", NumberV(2)>>, <<"value", NumberV(5)>>, <<"s", StringV(<<"a", "b">>)>>,
            <<"t", BoolV(TRUE)>>, <<"none", NoneV>>, <<"o", InstanceV("holder")>>,
            <<"a", InstanceV("adder")>>, <<"Plain", ClassV("Plain")>>,
            <<"m", InstanceV("maker")>>, <<"q", InstanceV("silent")>>,
            <<"w", InstanceV("named")>>})

Without(cl, names) == [n \in (DOMAIN cl) \ names |-> cl[n]]

\* The symbol tables a statement is executed against.
EvalClosures == {EvalClosure, Without(EvalClosure, {"value"}), EmptyClosure}

\* The paths of VariableValue nodes: up to MaxPath identifiers.
MaxPath == 3
PathNames == {"n", "value", "o", "inner", "zz"}
Paths == UNION {[1..len -> PathNames] : len \in 1..MaxPath}
VariableValueNodes == {VariableValue(path) : path \in Paths}

\* Print statements have at most MaxArgs arguments.
MaxArgs == 2

\* The arguments of the Print statements: constants of every kind, None,
\* and variables bound to None and to a class, or unbound.
PrintOperands ==
    {NumericConst(57), NumericConst(-8), NumericConst(0),
     StringConst(<<"h", "i">>), StringConst(<<>>), BoolConst(TRUE), BoolConst(FALSE),
     None, Var("none"), Var("Plain"), Var("zz")}

ArgLabel(i) == <<"arg1", "arg2", "arg3">>[i]

\* print a1, ..., an, the i-th argument marked ArgLabel(i)
PrintNodes ==
    UNION {{PrintStmt([i \in 1..len |-> Labelled(args[i], ArgLabel(i))])
            : args \in [1..len -> PrintOperands]} : len \in 0..MaxArgs}

\* The MethodCall statements: receivers of every kind, the methods of Plain
\* and Adder and an unknown one, up to MaxArgs marked arguments.
Receivers == {Var("n"), Var("s"), Var("t"), Var("none"), Var("Plain"), Var("o"), Var("a"), Var("zz")}
CalledMethods == {"one", "second", "bump", "nope"}
CallOperands == {NumericConst(1), Var("n"), Var("s")}
MethodCallNodes ==
    UNION {{MethodCall(object, method, [i \in 1..len |-> Labelled(args[i], ArgLabel(i))])
            : object \in Receivers, method \in CalledMethods, args \in [1..len -> CallOperands]}
           : len \in 0..MaxArgs}

\* The operands of the arithmetic statements: the ends of the int range and
\* numbers between, strings, a Bool, None, and variables bound to a string,
\* a class, an instance of Plain, an instance of Adder, or unbound.
LeafOperands ==
    {NumericConst(INT_MAX), NumericConst(INT_MIN), NumericConst(36), NumericConst(4),
     NumericConst(0), NumericConst(-1), NumericConst(-7),
     StringConst(<<"h", "i">>), StringConst(<<>>), BoolConst(TRUE), None,
     Var("s"), Var("Plain"), Var("o"), Var("a"), Var("zz")}
AddNodes == {Add(lhs, rhs) : lhs \in LeafOperands, rhs \in LeafOperands}

\* a.bump(): an operand whose evaluation sets a field and yields None.
BumpCall == MethodCall(Var("a"), "bump", <<>>)

\* The operands of Sub, Mult and Div: the leaves and a.bump(); and the
\* quotient 36 / 4 / 3 of test_example.cpp.
ArithOperands == LeafOperands \cup {BumpCall}
ArithNodes(Op(_, _)) == {Op(lhs, rhs) : lhs \in ArithOperands, rhs \in ArithOperands}
SubNodes == ArithNodes(Sub)
MultNodes == ArithNodes(Mult)
DivNodes == ArithNodes(Div) \cup {Div(Div(NumericConst(36), NumericConst(4)), NumericConst(3))}

\* The ClassDefinition statements: one for each class of the program.
ClassDefinitionNodes == {ClassDefinition(ClassV(c)) : c \in DOMAIN EvalClasses}

\* The FieldAssignment statements: object paths that reach an instance, a
\* value of another kind or nothing; field names that exist, that are new,
\* and the name self; right-hand sides of several kinds.
ObjectPaths ==
    {<<"o">>, <<"o", "inner">>, <<"a">>, <<"n">>, <<"s">>, <<"t">>, <<"none">>,
     <<"Plain">>, <<"zz">>}
AssignedFields == {"value", "fresh", SELF}
AssignedValues == {NumericConst(3), Var("s"), Var("o"), None, Var("zz")}
FieldAssignmentNodes ==
    {FieldAssignment(VariableValue(path), field_name, rv) :
        path \in ObjectPaths, field_name \in AssignedFields, rv \in AssignedValues}

\* The operands of Or, And and Not: values that IsTrue takes for true and for
\* false, an unbound name, and statements with an effect: a.bump() writes a
\* field and yields None, x = 1 binds x and yields 1, print 5 writes a line
\* and yields None.
AssignX == Assignment("x", NumericConst(1))
Print5 == PrintStmt(<<NumericConst(5)>>)
LogicOperands ==
    {NumericConst(0), NumericConst(36), StringConst(<<>>), BoolConst(TRUE), None,
     Var("Plain"), Var("o"), Var("zz"), BumpCall, AssignX, Print5}
LogicNodes(Op(_, _)) ==
    {Op(Labelled(lhs, "lhs"), Labelled(rhs, "rhs")) : lhs \in LogicOperands, rhs \in LogicOperands}
OrNodes == LogicNodes(Or)
AndNodes == LogicNodes(And)
NotNodes == {Not(Labelled(arg, "arg")) : arg \in LogicOperands}

\* The NewInstance statements: of a class whose __init__ takes one
\* parameter, two, or that has none, with no, one or two arguments; the
\* arguments are values, an unbound name and statements with an effect.
InstanceArgs == {NumericConst(3), Var("n"), Var("zz"), Print5, BumpCall}
NewInstanceNodes ==
    {NewInstance(ci, args) :
        ci \in {"point", "pair", "plain"},
        args \in {<<>>} \cup {<<Labelled(a1, ArgLabel(1))>> : a1 \in InstanceArgs}
                 \cup {<<Labelled(a1, ArgLabel(1)), Labelled(a2, ArgLabel(2))>> :
                          a1 \in InstanceArgs, a2 \in InstanceArgs}}

\* Programs that evaluate one NewInstance node twice, through two calls of
\* the method that holds it, and write a field in between:
\*   x = m.make(1)        x = m.plain()
\*   x.<field> = 3        x.<field> = 3
\*   y = m.make(2)        y = m.plain()
MakeCall(v) == MethodCall(Var("m"), "make", <<NumericConst(v)>>)
PlainCall == MethodCall(Var("m"), "plain", <<>>)
Twice(first, field_name, second) ==
    Compound(<<Assignment("x", first),
               FieldAssignment(Var("x"), field_name, NumericConst(3)),
               Assignment("y", second)>>)
TwiceNodes ==
    {Twice(MakeCall(1), field_name, MakeCall(2)) : field_name \in {"value", "extra"}}
        \cup {Twice(PlainCall, field_name, PlainCall) : field_name \in {"value", "extra"}}
        \cup {Twice(MakeCall(1), "extra", PlainCall)}

\* Programs with a Return outside every method, alone, after a statement,
\* before one, and after a method call that returns:
\*   x = 1        x = m.pick(<True or False>)      return zz
\*   return 1     return x
\*   print 5
PickCall(b) == MethodCall(Var("m"), "pick", <<BoolConst(b)>>)
TopReturnNodes ==
    {Compound(<<AssignX, Return(NumericConst(1)), Print5>>),
     Compound(<<Return(Var("zz"))>>)}
        \cup {Compound(<<Assignment("x", PickCall(b)), Return(Var("x"))>>) : b \in BOOLEAN}
        \cup {Compound(<<Assignment("x", PickCall(b)), Print5>>) : b \in BOOLEAN}

\* Programs that print an object or keep its text; q is an instance whose
\* __str__ returns nothing, w one whose __str__ returns 'hi':
\*   print <object>        x = str(<object>)
Printed == {Var("q"), Var("w"), Var("o"), Var("none"), Var("n")}
TextNodes ==
    {Compound(<<PrintStmt(<<object>>)>>) : object \in Printed}
        \cup {Compound(<<Assignment("x", Stringify(object))>>) : object \in Printed}
CompoundNodes == TwiceNodes \cup TopReturnNodes \cup TextNodes

\* The IfElse statements: a Return in a branch, outside every method.
IfElseBodies == {Return(NumericConst(1)), Compound(<<Return(Var("n"))>>), Print5, <<>>}
IfElseNodes ==
    {IfElse(condition, if_body, else_body) :
        condition \in {BoolConst(TRUE), NumericConst(0), Var("zz"), PickCall(TRUE)},
        if_body \in IfElseBodies \ {<<>>}, else_body \in IfElseBodies}

\* The statements that are executed.
EvalNodes ==
    VariableValueNodes \cup PrintNodes \cup MethodCallNodes \cup AddNodes
        \cup SubNodes \cup MultNodes \cup DivNodes \cup ClassDefinitionNodes
        \cup FieldAssignmentNodes \cup OrNodes \cup AndNodes \cup NotNodes
        \cup NewInstanceNodes \cup CompoundNodes \cup IfElseNodes

EvalInit ==
    /\ LexerIdle
    /\ classes = EvalClasses
    /\ heap = EvalHeap
    /\ closure \in EvalClosures
    /\ output = <<>>
    /\ exec_log = <<>>
    /\ \E node \in EvalNodes : call = [op |-> "evaluate", node |-> node, closure |-> closure]
    /\ ret = NoRet

\* statement->Execute(closure, context) for a statement of class kind
Evaluate(kind) ==
    /\ call.op = "evaluate" /\ ret.op = "none"
    /\ call.node.k = kind
    /\ LET Finish(r) ==
               /\ closure' = r.cl
               /\ heap' = r.g.heap
               /\ output' = output \o r.g.out
               /\ exec_log' = r.g.log
               /\ ret' = [op |-> kind, sig |-> r.sig, val |-> r.val]
       IN  \E outcome \in OverflowOutcomes :
               Finish(Exec(call.node, closure,
                           [Context(classes, heap) EXCEPT !.on_overflow = outcome]))
    /\ UNCHANGED <<lexer_vars, classes, call>>

EvaluateVariableValue == Evaluate("VariableValue")
EvaluatePrint == Evaluate("Print")
EvaluateMethodCall == Evaluate("MethodCall")
EvaluateAdd == Evaluate("Add")
EvaluateSub == Evaluate("Sub")
EvaluateMult == Evaluate("Mult")
EvaluateDiv == Evaluate("Div")
EvaluateClassDefinition == Evaluate("ClassDefinition")
EvaluateFieldAssignment == Evaluate("FieldAssignment")
EvaluateOr == Evaluate("Or")
EvaluateAnd == Evaluate("And")
EvaluateNot == Evaluate("Not")
EvaluateNewInstance == Evaluate("NewInstance")
EvaluateCompound == Evaluate("Compound")
EvaluateIfElse == Evaluate("IfElse")

EvalNext ==
    \/ EvaluateVariableValue
    \/ EvaluatePrint
    \/ EvaluateMethodCall
    \/ EvaluateAdd
    \/ EvaluateSub
    \/ EvaluateMult
    \/ EvaluateDiv
    \/ EvaluateClassDefinition
    \/ EvaluateFieldAssignment
    \/ EvaluateOr
    \/ EvaluateAnd
    \/ EvaluateNot
    \/ EvaluateNewInstance
    \/ EvaluateCompound
    \/ EvaluateIfElse

SpecEval == EvalInit /\ [][EvalNext]_vars

RECURSIVE Descend(_, _, _, _)
\* The lookup of path from its i-th identifier in table: every identifier
\* must be bound in the table searched, and every identifier but the last
\* must be bound to an instance, whose field table is searched next.
Descend(path, i, table, hp) ==
    IF path[i] \notin DOMAIN table THEN Threw("lookup", "runtime_error")
    ELSE IF i = Len(path) THEN Returned("lookup", table[path[i]])
    ELSE IF table[path[i]].t # "Instance" THEN Threw("lookup", "runtime_error")
    ELSE Descend(path, i + 1, hp[table[path[i]].v].fields, hp)

\* C11: VariableValue p1.p2...pn returns what pn is bound to in the field
\* table reached by looking p1 up in the symbol table and every further
\* identifier in the fields of the instance reached so far, and raises a
\* runtime error whenever an identifier is unbound in the table searched or
\* a non-final identifier is not bound to an instance.
C11_LookupFailsAtAnyStep ==
    ret.op = "VariableValue" =>
        /\ ret.sig = Descend(call.node.dotted_ids, 1, call.closure, heap).sig
        /\ ret.sig = "ok" =>
             SameObject(ret.val, Descend(call.node.dotted_ids, 1, call.closure, heap).val)

\* The value of an argument of a Print statement in the symbol table cl.
OperandValue(node, cl) ==
    CASE node.k \in {"NumericConst", "StringConst", "BoolConst"} -> node.value
      [] node.k = "None" -> NoneV
      [] node.k = "VariableValue" -> cl[node.dotted_ids[1]]

\* The printed form of a value that is not an instance.
PrintedForm(oh) ==
    CASE oh.t = "None" -> <<"N", "o", "n", "e">>
      [] oh.t = "Bool" -> IF oh.v THEN <<"T", "r", "u", "e">> ELSE <<"F", "a", "l", "s", "e">>
      [] oh.t = "Number" -> IntToChars(oh.v)
      [] oh.t = "String" -> oh.v
      [] oh.t = "Class" -> <<"C", "l", "a", "s", "s", " ">> \o <<classes[oh.v].name>>

RECURSIVE PrintedLine(_, _, _)
\* The forms of the arguments from the i-th on, one space between two.
PrintedLine(args, i, cl) ==
    IF i > Len(args) THEN <<>>
    ELSE (IF i > 1 THEN <<" ">> ELSE <<>>)
         \o PrintedForm(OperandValue(args[i], cl)) \o PrintedLine(args, i + 1, cl)

\* The marks of the arguments in the order in which they were executed.
MarkedEvents == {i \in DOMAIN exec_log : exec_log[i].e = "Execute" /\ exec_log[i].x # ""}
ArgsExecuted ==
    [j \in 1..Cardinality(MarkedEvents) |->
        exec_log[CHOOSE i \in MarkedEvents : Cardinality({h \in MarkedEvents : h <= i}) = j].x]

\* C12: a Print that returns has executed its arguments once each from left
\* to right and has appended to the output stream their printed forms (None
\* for an empty holder, True/False, the decimal number, the raw string,
\* Class and the name) with one space between two and one newline after
\* the last; with no argument it appends the newline alone; it returns None
\* and leaves the symbol table as it was.
C12_PrintLine ==
    (ret.op = "Print" /\ ret.sig = "ok") =>
        /\ ArgsExecuted = [i \in 1..Len(call.node.args) |-> ArgLabel(i)]
        /\ output = PrintedLine(call.node.args, 1, call.closure) \o <<NL>>
        /\ (call.node.args = <<>> => output = <<NL>>)
        /\ ret.val = NoneV
        /\ closure = call.closure

\* print 57, Plain has written "57 Class Plain" and a newline.
C12_Witness ==
    /\ ret.op = "Print" /\ ret.sig = "ok"
    /\ Len(call.node.args) = 2
    /\ call.node.args[2].k = "VariableValue"
    /\ output = <<"5", "7", " ", "C", "l", "a", "s", "s", " ", "Plain", NL>>

\* What the methods of Plain and Adder return for the argument values args.
MethodResult(method, args) ==
    CASE method = "one" -> args[1]
      [] method = "second" -> args[2]
      [] method = "bump" -> NoneV

\* The values of the arguments of the executed statement in the caller's
\* symbol table.
ArgValues == [i \in 1..Len(call.node.args) |-> OperandValue(call.node.args[i], call.closure)]

\* The receiver of the executed MethodCall is bound, to an instance whose
\* class chain has the method with as many parameters as the call has
\* arguments.
ReceiverResolves ==
    /\ call.node.object.dotted_ids[1] \in DOMAIN call.closure
    /\ OperandValue(call.node.object, call.closure).t = "Instance"
    /\ ~IsNullMethod(FirstByNameAndArity(
            classes, heap[OperandValue(call.node.object, call.closure).v].cls,
            call.node.method, Len(call.node.args)))

\* C17: a MethodCall whose receiver is bound to a value that is no instance,
\* or to an instance whose class does not resolve the method with as many
\* parameters as there are arguments, returns None, throws nothing and
\* calls nothing; otherwise it executes the arguments once each from left to
\* right in the caller's symbol table, calls the method on the receiver
\* with their values and returns what the method returns.
C17_MethodCallOrNone ==
    (ret.op = "MethodCall" /\ call.node.object.dotted_ids[1] \in DOMAIN call.closure) =>
        /\ ~ReceiverResolves =>
              /\ ret.sig = "ok" /\ ret.val = NoneV
              /\ \A i \in DOMAIN exec_log : exec_log[i].e # "Call"
        /\ ReceiverResolves =>
              /\ ret.sig = "ok"
              /\ ArgsExecuted = [i \in 1..Len(call.node.args) |-> ArgLabel(i)]
              /\ \E i \in DOMAIN exec_log :
                    /\ exec_log[i].e = "Call"
                    /\ exec_log[i].k = call.node.method
                    /\ exec_log[i].x.self = OperandValue(call.node.object, call.closure).v
                    /\ exec_log[i].x.actual_args = ArgValues
              /\ SameObject(ret.val, MethodResult(call.node.method, ArgValues))
              /\ closure = call.closure

\* o.second(1, n) has returned the value of n.
C17_Witness ==
    /\ ret.op = "MethodCall" /\ ret.sig = "ok"
    /\ call.node.object.dotted_ids = <<"o">>
    /\ call.node.method = "second" /\ Len(call.node.args) = 2
    /\ call.node.args[1].k = "NumericConst" /\ call.node.args[2].k = "VariableValue"
    /\ call.node.args[2].dotted_ids = <<"n">>
    /\ ret.val = NumberV(2)

\* The two operands of the executed statement are constants or bound
\* variables.
IsLeaf(node) == node.k \in {"NumericConst", "StringConst", "BoolConst", "None", "VariableValue"}
LeavesBound ==
    \A node \in {call.node.lhs, call.node.rhs} :
        /\ IsLeaf(node)
        /\ node.k = "VariableValue" => node.dotted_ids[1] \in DOMAIN call.closure
LhsValue == OperandValue(call.node.lhs, call.closure)
RhsValue == OperandValue(call.node.rhs, call.closure)

\* a + b is an int, and c is a + b
SumIsInt(a, b) == IF b > 0 THEN a <= INT_MAX - b ELSE a >= INT_MIN - b
IsSum(c, a, b) == SumIsInt(a, b) /\ c = a + b

\* The left operand is an instance whose class chain has __add__ with one
\* parameter.
LhsAdds ==
    /\ LhsValue.t = "Instance"
    /\ ~IsNullMethod(FirstByNameAndArity(classes, heap[LhsValue.v].cls, ADD_METHOD, 1))

\* What Add has returned for its two operand values, the sum of two Numbers
\* being claimed for every pair (every_sum) or for the pairs whose sum is an
\* int.
AddByKinds(every_sum) ==
    (ret.op = "Add" /\ LeavesBound) =>
        IF LhsValue.t = "Number" /\ RhsValue.t = "Number"
        THEN (every_sum \/ SumIsInt(LhsValue.v, RhsValue.v)) =>
                /\ ret.sig = "ok" /\ ret.val.t = "Number"
                /\ IsSum(ret.val.v, LhsValue.v, RhsValue.v)
        ELSE IF LhsValue.t = "String" /\ RhsValue.t = "String"
        THEN ret.sig = "ok" /\ SameObject(ret.val, StringV(LhsValue.v \o RhsValue.v))
        ELSE IF LhsAdds
        THEN /\ ret.sig = "ok"
             /\ \E i \in DOMAIN exec_log :
                   /\ exec_log[i].e = "Call" /\ exec_log[i].k = ADD_METHOD
                   /\ exec_log[i].x.self = LhsValue.v
                   /\ exec_log[i].x.actual_args = <<RhsValue>>
             /\ SameObject(ret.val, RhsValue)
        ELSE ret.sig = "runtime_error"

\* C18: Add returns Number(a+b) for two Numbers, String(s1 ++ s2) for two
\* Strings, what lhs.__add__(rhs) returns when the left operand is an
\* instance whose class resolves __add__ with one parameter, whatever the
\* right operand is, and throws a runtime error for every other pair.
C18_AddByKinds == AddByKinds(TRUE)

\* C18 as amended: the same, the sum of two Numbers being returned when
\* a+b is a 32-bit signed integer.
C18_AddByKindsOfIntSums == AddByKinds(FALSE)

\* 36 + -7 has returned 29.
C18_Witness ==
    /\ ret.op = "Add" /\ ret.sig = "ok"
    /\ call.node.lhs = NumericConst(36) /\ call.node.rhs = NumericConst(-7)
    /\ ret.val = NumberV(29)

\* The value an operand of Sub, Mult or Div has in the symbol table cl:
\* a.bump() yields None, 36 / 4 is 9, and an operand that names an unbound
\* variable has no value.
NoValue == [t |-> "Unbound", v |-> 0]
ArithValue(node, cl) ==
    CASE node.k = "MethodCall" -> IF "a" \in DOMAIN cl THEN NoneV ELSE NoValue
      [] node.k = "Div" -> NumberV(9)
      [] node.k = "VariableValue" ->
            IF node.dotted_ids[1] \in DOMAIN cl THEN cl[node.dotted_ids[1]] ELSE NoValue
      [] OTHER -> OperandValue(node, cl)
ArithLhs == ArithValue(call.node.lhs, call.closure)
ArithRhs == ArithValue(call.node.rhs, call.closure)
BothNumbers == ArithLhs.t = "Number" /\ ArithRhs.t = "Number"

\* q is the integer quotient of a by b # 0: a = q*b + r with r nearer to
\* zero than b and of the sign of a.
QuotientIsInt(a, b) == ~(a = INT_MIN /\ b = -1)
IsQuotient(q, a, b) ==
    /\ QuotientIsInt(a, b)
    /\ q \in (IF a < 0 THEN a ELSE -a)..(IF a < 0 THEN IF a = INT_MIN THEN INT_MAX ELSE -a ELSE a)
    /\ LET r == a - q * b
       IN  /\ IF b > 0 THEN -b < r /\ r < b ELSE b < r /\ (b = INT_MIN \/ r < -b)
           /\ r = 0 \/ (r < 0) = (a < 0)

\* The instances after the operands of the executed statement have been
\* evaluated: a.bump() sets the field hits of the instance a is bound to.
BumpExecuted ==
    /\ "a" \in DOMAIN call.closure
    /\ \/ call.node.lhs = BumpCall
       \/ call.node.rhs = BumpCall /\ ArithLhs.t # "Unbound"
HeapAfterOperands ==
    IF BumpExecuted
    THEN [EvalHeap EXCEPT !["adder"].fields = Bind(@, "hits", NumberV(1))]
    ELSE EvalHeap

\* What Sub, Mult and Div have done: a Number is returned only for two
\* Numbers; Div returns the quotient of two Numbers, for every divisor but
\* 0 (every_quotient) or when the quotient is an int; a divisor 0 and every
\* pair that is not two Numbers throw a runtime error; when a runtime error
\* is thrown the symbol table and the fields are as they were before the
\* statement (nothing_changed) or as the operands left them.
ArithmeticOfNumbers(every_quotient, nothing_changed) ==
    (ret.op \in {"Sub", "Mult", "Div"}) =>
        /\ (ret.sig = "ok" /\ ret.val.t = "Number") => BothNumbers
        /\ (/\ ret.op = "Div" /\ BothNumbers /\ ArithRhs.v # 0
            /\ every_quotient \/ QuotientIsInt(ArithLhs.v, ArithRhs.v)) =>
                /\ ret.sig = "ok" /\ ret.val.t = "Number"
                /\ IsQuotient(ret.val.v, ArithLhs.v, ArithRhs.v)
        /\ (ret.op = "Div" /\ ArithRhs.t = "Number" /\ ArithRhs.v = 0
            /\ ArithLhs.t # "Unbound") => ret.sig = "runtime_error"
        /\ ~BothNumbers => ret.sig = "runtime_error"
        /\ ret.sig = "runtime_error" =>
                /\ closure = call.closure
                /\ heap = (IF nothing_changed THEN EvalHeap ELSE HeapAfterOperands)

\* C19: Sub, Mult and Div return a Number only when both operands are
\* Numbers, Div returning the integer quotient (36 / 4 / 3 = 3); Div by a
\* Number 0 and every other combination of operands throw a runtime error;
\* and whenever an error is thrown no binding and no field has changed.
C19_ArithmeticOfNumbers == ArithmeticOfNumbers(TRUE, TRUE)

\* C19 as amended: the same, Div returning the quotient when it is a 32-bit
\* signed integer, and a thrown error leaving the bindings and the fields as
\* the evaluation of the two operands left them.
C19_ArithmeticOfIntQuotients == ArithmeticOfNumbers(FALSE, FALSE)

\* 36 / 4 / 3 has returned 3.
C19_Witness ==
    /\ ret.op = "Div" /\ ret.sig = "ok"
    /\ call.node.lhs = Div(NumericConst(36), NumericConst(4))
    /\ call.node.rhs = NumericConst(3)
    /\ ret.val = NumberV(3)

\* C20: after ClassDefinition the symbol table maps the name of the class to
\* that class, whatever the name was bound to before (nothing, a variable or
\* an earlier class of that name); every other binding is as before, and
\* the statement returns None.
C20_ClassDefinitionBinds ==
    ret.op = "ClassDefinition" =>
        /\ ret.sig = "ok" /\ ret.val = NoneV
        /\ DOMAIN closure = DOMAIN call.closure \cup {classes[call.node.cls.v].name}
        /\ SameObject(closure[classes[call.node.cls.v].name], call.node.cls)
        /\ \A name \in (DOMAIN call.closure) \ {classes[call.node.cls.v].name} :
              SameObject(closure[name], call.closure[name])

\* The object path of the executed FieldAssignment resolves in the caller's
\* symbol table, and its right-hand side evaluates.
ObjectResolves == Descend(call.node.object.dotted_ids, 1, call.closure, EvalHeap).sig = "ok"
ObjectValue == Descend(call.node.object.dotted_ids, 1, call.closure, EvalHeap).val
ValueAssigned ==
    /\ ObjectResolves
    /\ call.node.rv.k = "VariableValue" => call.node.rv.dotted_ids[1] \in DOMAIN call.closure
AssignedValue == OperandValue(call.node.rv, call.closure)

\* C21: a FieldAssignment whose field name is self does not set it: the
\* field table of the target instance has no entry self created or changed
\* by the assignment.
C21_SelfIsNotSettable ==
    (/\ ret.op = "FieldAssignment" /\ call.node.field_name = SELF
     /\ ValueAssigned /\ ObjectValue.t = "Instance") =>
        SELF \notin DOMAIN heap[ObjectValue.v].fields

\* C21 as amended: self is a field name like any other: a FieldAssignment
\* whose field name is self stores the assigned value under self in the
\* field table of the target instance and returns it.
C21_SelfIsAField ==
    (/\ ret.op = "FieldAssignment" /\ call.node.field_name = SELF
     /\ ValueAssigned /\ ObjectValue.t = "Instance") =>
        /\ ret.sig = "ok" /\ SameObject(ret.val, AssignedValue)
        /\ SELF \in DOMAIN heap[ObjectValue.v].fields
        /\ SameObject(heap[ObjectValue.v].fields[SELF], AssignedValue)

\* o.self = 3 has been executed and the instance has the field self = 3.
C21_Witness ==
    /\ ret.op = "FieldAssignment" /\ ret.sig = "ok"
    /\ call.node.object.dotted_ids = <<"o">> /\ call.node.field_name = SELF
    /\ call.node.rv = NumericConst(3)
    /\ SELF \in DOMAIN heap["holder"].fields
    /\ heap["holder"].fields[SELF] = NumberV(3)

\* The field table of instance p after value is stored under field_name.
FieldsWith(fields, field_name, value) ==
    [n \in DOMAIN fields \cup {field_name} |-> IF n = field_name THEN value ELSE fields[n]]

\* C26: a FieldAssignment whose object path evaluates to an instance stores
\* the value of the right-hand side under the field name in the field table
\* of that instance, creating or replacing the entry, leaves its other
\* fields, the other instances and every binding as they are, and returns
\* the stored value; when the path evaluates to a value that is no instance
\* it returns None, throws nothing and changes no field table.
C26_FieldAssignmentStores ==
    (ret.op = "FieldAssignment" /\ ValueAssigned) =>
        /\ ret.sig = "ok"
        /\ closure = call.closure
        /\ IF ObjectValue.t = "Instance"
           THEN /\ SameObject(ret.val, AssignedValue)
                /\ heap = [EvalHeap EXCEPT ![ObjectValue.v].fields =
                               FieldsWith(@, call.node.field_name, AssignedValue)]
           ELSE ret.val = NoneV /\ heap = EvalHeap

\* o.inner.value = s has replaced the field value of the inner instance.
C26_Witness ==
    /\ ret.op = "FieldAssignment" /\ ret.sig = "ok"
    /\ call.node.object.dotted_ids = <<"o", "inner">> /\ call.node.field_name = "value"
    /\ call.node.rv = Var("s")
    /\ heap["inner"].fields["value"] = StringV(<<"a", "b">>)
    /\ heap["holder"] = EvalHeap["holder"]

\* The value of an operand of Or, And or Not in the symbol table cl; an
\* operand whose evaluation throws has none.
LogicValue(node, cl) ==
    CASE node.k = "MethodCall" -> IF "a" \in DOMAIN cl THEN NoneV ELSE NoValue
      [] node.k = "Assignment" -> NumberV(1)
      [] node.k = "Print" -> NoneV
      [] node.k = "VariableValue" ->
            IF node.dotted_ids[1] \in DOMAIN cl THEN cl[node.dotted_ids[1]] ELSE NoValue
      [] OTHER -> OperandValue(node, cl)

\* The symbol table, the instances and the output after the operand node
\* has been evaluated in st.
EffectOf(node, st) ==
    IF LogicValue(node, st.cl) = NoValue THEN st
    ELSE CASE node.k = "MethodCall" ->
                [st EXCEPT !.heap["adder"].fields = Bind(@, "hits", NumberV(1))]
           [] node.k = "Assignment" -> [st EXCEPT !.cl = Bind(@, "x", NumberV(1))]
           [] node.k = "Print" -> [st EXCEPT !.out = @ \o <<"5", NL>>]
           [] OTHER -> st
StateBefore == [cl |-> call.closure, heap |-> EvalHeap, out |-> <<>>]
StateNow == [cl |-> closure, heap |-> heap, out |-> output]

LhsValueOf == LogicValue(call.node.lhs, call.closure)
RhsValueOf == LogicValue(call.node.rhs, call.closure)

\* Or needs its right operand when the left one is not true, And when it is.
RhsNeeded ==
    /\ LhsValueOf # NoValue
    /\ IF ret.op = "Or" THEN ~IsTrue(LhsValueOf) ELSE IsTrue(LhsValueOf)

\* C22: Or and And evaluate the left operand first and once; the right
\* operand is evaluated, once, exactly when the left one is not true (Or) or
\* is true (And); when it is not evaluated none of its effects happens: no
\* output, no binding, no field write, no error.
C22_ShortCircuit ==
    (ret.op \in {"Or", "And"}) =>
        /\ ArgsExecuted = (IF RhsNeeded THEN <<"lhs", "rhs">> ELSE <<"lhs">>)
        /\ StateNow = (IF RhsNeeded
                       THEN EffectOf(call.node.rhs, EffectOf(call.node.lhs, StateBefore))
                       ELSE EffectOf(call.node.lhs, StateBefore))
        /\ ret.sig = (IF LhsValueOf = NoValue \/ (RhsNeeded /\ RhsValueOf = NoValue)
                      THEN "runtime_error" ELSE "ok")

\* 36 or print 5 has returned without writing anything.
C22_Witness ==
    /\ ret.op = "Or" /\ ret.sig = "ok"
    /\ call.node.lhs = Labelled(NumericConst(36), "lhs")
    /\ call.node.rhs = Labelled(Print5, "rhs")
    /\ output = <<>>
    /\ ArgsExecuted = <<"lhs">>

\* C23: Or, And and Not return a Bool and never an operand: Or returns
\* Bool(is_true(l) or is_true(r)), And Bool(is_true(l) and is_true(r)), Not
\* Bool(not is_true(arg)); so is_true(v) holds exactly when is_true of what
\* Not returns for v does not.
C23_LogicReturnsBool ==
    (ret.op \in {"Or", "And", "Not"} /\ ret.sig = "ok") =>
        /\ ret.val.t = "Bool"
        /\ ret.op = "Or" => ret.val.v = (IsTrue(LhsValueOf) \/ IsTrue(RhsValueOf))
        /\ ret.op = "And" => ret.val.v = (IsTrue(LhsValueOf) /\ IsTrue(RhsValueOf))
        /\ ret.op = "Not" =>
              /\ ret.val.v = ~IsTrue(LogicValue(call.node.arg, call.closure))
              /\ IsTrue(LogicValue(call.node.arg, call.closure)) = ~IsTrue(ret.val)

\* 36 and x = 1 has returned True, not 1.
C23_Witness ==
    /\ ret.op = "And" /\ ret.sig = "ok"
    /\ call.node.lhs = Labelled(NumericConst(36), "lhs")
    /\ call.node.rhs = Labelled(AssignX, "rhs")
    /\ ret.val = BoolV(TRUE)


\* The number of spaces of the bytes in that follow the first pos bytes.
LeadingSpaces(in, pos) ==
    CHOOSE n \in 0..(Len(in) - pos) :
        /\ \A i \in 1..n : in[pos + i] = " "
        /\ (pos + n = Len(in) \/ in[pos + n + 1] # " ")

\* The lexer is about to read the first byte of a line.
AtLineStart ==
    /\ split_pc = "loop"
    /\ StreamGood(token_creator.s)
    /\ token_creator.is_new_line_
    /\ token_creator.s.pos < Len(token_creator.s.in)

\* The line the lexer is at is one it does not skip: its leading spaces are
\* followed by a byte that is no newline.
LineNotSkipped ==
    LET in == token_creator.s.in
        at == token_creator.s.pos + LeadingSpaces(in, token_creator.s.pos)
    IN  at < Len(in) /\ in[at + 1] # NL

\* C24: at a line the lexer does not skip, with k leading spaces at level c:
\* when k - c is odd the lexer fails with LexerError; otherwise it appends
\* |k - c| / 2 Indent tokens (k > c) or Dedent tokens (k < c), nothing when
\* k = c, before it reads the first byte after the spaces, and the level
\* becomes k.
C24_IndentByDelta ==
    [][(AtLineStart /\ LineNotSkipped) =>
        LET k == LeadingSpaces(token_creator.s.in, token_creator.s.pos)
            c == token_creator.indent_counter_
            layout == IF k > c THEN "Indent" ELSE "Dedent"
            levels == (IF k > c THEN k - c ELSE c - k) \div 2
        IN  IF (k - c) % 2 # 0
            THEN split_pc' = "LexerError" /\ tokens' = tokens
            ELSE /\ split_pc' = "loop"
                 /\ tokens' = tokens \o [i \in 1..levels |-> Tok(layout)]
                 /\ token_creator'.indent_counter_ = k
                 /\ token_creator'.s.pos = token_creator.s.pos + k]_vars



\* The class of the instance a NewInstance node owns has an __init__ with
\* as many parameters as the node has arguments (the classes of the
\* prepared program have no parent).
InitResolves(node) ==
    LET methods == EvalClasses[EvalHeap[node.ci].cls].methods
    IN  \E i \in DOMAIN methods :
            /\ methods[i].name = INIT_METHOD
            /\ Len(methods[i].formal_params) = Len(node.args)

InstanceArgValues == [i \in 1..Len(call.node.args) |-> LogicValue(call.node.args[i], call.closure)]

\* The state after the arguments have been evaluated from the left.
AfterArgs(args, st) ==
    IF Len(args) = 0 THEN st
    ELSE IF Len(args) = 1 THEN EffectOf(args[1], st)
    ELSE EffectOf(args[2], EffectOf(args[1], st))

\* The fields __init__ of Point and of Pair sets from its arguments.
InitFields(fields, values) ==
    IF Len(values) = 1 THEN Bind(fields, "value", values[1])
    ELSE Bind(Bind(fields, "value", values[1]), "second", values[2])

InitCalls == {i \in DOMAIN exec_log : exec_log[i].e = "Call" /\ exec_log[i].k = INIT_METHOD}

\* The instance owned by the NewInstance node that a call of make or of
\* plain evaluates.
MadeBy(method_call) == IF method_call.method = "make" THEN "made_point" ELSE "made_plain"
FieldsMadeBy(method_call, fields) ==
    IF method_call.method = "make" THEN Bind(fields, "value", method_call.args[1].value)
    ELSE fields

\* C25: a NewInstance node returns its own instance at every evaluation:
\* fields written after one evaluation are there after the next unless
\* __init__ overwrites them, and two variables bound from two evaluations
\* name the same instance; __init__ is called on that instance, with the
\* arguments evaluated from the left, exactly when the class resolves
\* __init__ with as many parameters as there are arguments; otherwise the
\* instance is returned, without an error and without evaluating an argument.
C25_NewInstanceShares ==
    /\ (ret.op = "NewInstance" /\ ~InitResolves(call.node)) =>
          /\ ret.sig = "ok" /\ ret.val = InstanceV(call.node.ci)
          /\ ArgsExecuted = <<>>
          /\ InitCalls = {}
          /\ StateNow = StateBefore
    /\ (ret.op = "NewInstance" /\ InitResolves(call.node)
            /\ \A i \in 1..Len(call.node.args) : InstanceArgValues[i] # NoValue) =>
          /\ ret.sig = "ok" /\ ret.val = InstanceV(call.node.ci)
          /\ ArgsExecuted = [i \in 1..Len(call.node.args) |-> ArgLabel(i)]
          /\ Cardinality(InitCalls) = 1
          /\ \A i \in InitCalls :
                /\ exec_log[i].x.self = call.node.ci
                /\ exec_log[i].x.actual_args = InstanceArgValues
                /\ \A j \in MarkedEvents : j < i
          /\ StateNow = [AfterArgs(call.node.args, StateBefore) EXCEPT
                            !.heap[call.node.ci].fields = InitFields(@, InstanceArgValues)]
    /\ (ret.op = "Compound" /\ call.node \in TwiceNodes /\ "m" \in DOMAIN call.closure) =>
          LET first == call.node.operations[1].rv
              second == call.node.operations[3].rv
              written == Bind(FieldsMadeBy(first, EmptyClosure),
                              call.node.operations[2].field_name, NumberV(3))
          IN  /\ ret.sig = "ok"
              /\ closure = Bind(Bind(call.closure, "x", InstanceV(MadeBy(first))),
                                "y", InstanceV(MadeBy(second)))
              /\ heap = IF MadeBy(first) = MadeBy(second)
                        THEN [EvalHeap EXCEPT ![MadeBy(first)].fields = FieldsMadeBy(second, written)]
                        ELSE [EvalHeap EXCEPT ![MadeBy(first)].fields = written,
                                              ![MadeBy(second)].fields = FieldsMadeBy(second, EmptyClosure)]

\* x = m.make(1), x.extra = 3, y = m.make(2) has returned: x and y are the
\* one instance, which has extra = 3 and value = 2.
C25_Witness ==
    /\ ret.op = "Compound" /\ ret.sig = "ok"
    /\ call.node = Twice(MakeCall(1), "extra", MakeCall(2))
    /\ closure["x"] = closure["y"]
    /\ heap["made_point"].fields = Bind(Bind(EmptyClosure, "value", NumberV(2)), "extra", NumberV(3))


\* The cursor is at the last token, the final Eof, or after it.
AtFinalEof(index) == index + 1 >= Len(tokens)

\* C27: CurrentToken returns the token at the cursor and leaves the cursor
\* where it is; NextToken moves the cursor forward by one and returns the
\* token it is then at; the tokens themselves never change; once the cursor
\* is at the final Eof or after the end, every call of the two returns Eof,
\* whatever calls of Expect and ExpectNext come between them.
C27_CursorWalks ==
    [][split_pc = "returned" =>
          /\ tokens' = tokens
          /\ current_index_' >= current_index_
          /\ ret'.op \in {"CurrentToken", "NextToken"} =>
                /\ ret'.op = "CurrentToken" => current_index_' = current_index_
                /\ ret'.op = "NextToken" => current_index_' = current_index_ + 1
                /\ current_index_' < Len(tokens) => ret'.token = tokens[current_index_' + 1]
                /\ AtFinalEof(current_index_') => ret'.token = Tok("Eof")]_vars

\* NextToken has been called past the end of at least three tokens and has
\* returned Eof.
C27_Witness ==
    /\ split_pc = "returned"
    /\ ret # <<>>
    /\ ret.op = "NextToken"
    /\ Len(tokens) >= 3
    /\ current_index_ > Len(tokens)
    /\ ret.token = Tok("Eof")


\* A pass of the loop of SplitIntoTokens has been made and the loop goes on.
PassMade == split_pc = "loop" /\ split_pc' = "loop" /\ tokens' # tokens

\* C28: the lexer terminates on every input, because no pass of its loop
\* that pushes a token leaves the input where it was: such a pass consumes
\* at least one byte, or reaches the end of the input, or is the one pass
\* that leaves the start of a line.
C28_EveryPassAdvances ==
    [][PassMade =>
          \/ token_creator'.s.pos > token_creator.s.pos
          \/ ~StreamGood(token_creator'.s)
          \/ (token_creator.is_new_line_ /\ ~token_creator'.is_new_line_)]_vars


\* The event at position i of the log happened inside a method: more calls
\* have been entered before it than method bodies have been left.
InMethod(i) ==
    Cardinality({j \in EventsAt("Call") : j < i})
        > Cardinality({j \in EventsAt("catch") \cup EventsAt("end") : j < i})

ReturnsExecuted == {i \in EventsAt("Execute") : exec_log[i].k = "Return"}

\* C29 as stated: no ReturnException leaves the Execute of the root
\* statement, whatever the statement is; every Return is caught by a
\* MethodBody.
C29_NoReturnSurfaces ==
    ret.op # "none" =>
        /\ ret.sig # "ReturnException"
        /\ \A i \in EventsAt("throw") : i < Len(exec_log) /\ exec_log[i + 1].e = "catch"

\* C29 as it holds: every Return whose operand evaluates throws; a Return
\* executed inside a method is caught at once by the MethodBody of that
\* method, which yields the value, so that none leaves a method call; a
\* Return executed outside every method is caught by nothing, ends the
\* execution and leaves the root Execute as a ReturnException with the value.
C29_ReturnCaughtInMethodsOnly ==
    ret.op # "none" =>
        /\ ret.sig # "runtime_error" =>
              Cardinality(ReturnsExecuted) = Cardinality(EventsAt("throw"))
        /\ \A i \in EventsAt("throw") :
              IF InMethod(i)
              THEN /\ i < Len(exec_log)
                   /\ exec_log[i + 1].e = "catch"
                   /\ exec_log[i + 1].x = exec_log[i].x
              ELSE /\ i = Len(exec_log)
                   /\ ret.sig = "ReturnException"
                   /\ ret.val = exec_log[i].x
        /\ ret.sig = "ReturnException" =>
              /\ exec_log # <<>>
              /\ exec_log[Len(exec_log)].e = "throw"
              /\ ~InMethod(Len(exec_log))

\* x = m.pick(True), return x has been executed: the Return of pick was
\* caught by the body of pick, the Return after it left the root Execute
\* with the value 1.
C29_Witness ==
    /\ ret.op = "Compound"
    /\ call.node = Compound(<<Assignment("x", PickCall(TRUE)), Return(Var("x"))>>)
    /\ ret.sig = "ReturnException"
    /\ ret.val = NumberV(1)
    /\ Cardinality(EventsAt("catch")) = 1
    /\ Cardinality(EventsAt("throw")) = 2


\* The program prints, or keeps the text of, the instance whose __str__
\* returns None.
TextOfSilent ==
    /\ ret.op = "Compound"
    /\ call.node \in TextNodes
    /\ "q" \in DOMAIN call.closure
    /\ call.node.operations[1] \in {PrintStmt(<<Var("q")>>), Assignment("x", Stringify(Var("q")))}

\* C30: printing never uses an empty holder as an object: Print and
\* Stringify of an instance whose __str__, without parameters, returns None
\* end without an invalid access and give the text None, as for any other
\* None.
C30_NoneStrPrintsNone ==
    TextOfSilent =>
        /\ ret.sig = "ok"
        /\ call.node.operations[1].k = "Print" => output = NONE_STR \o <<NL>>
        /\ call.node.operations[1].k = "Assignment" => closure["x"] = StringV(NONE_STR)

=============================================================================
